---- MODULE Spec2Model ----
(***************************************************************************)
(* State-machine model of the XInput2 tablet backend                       *)
(* (src/platform/xinput2/mod.rs): device classification (repopulate), the  *)
(* per-tool phase machine, grab arbitration, the event pump and the        *)
(* tick-end timeout/frame synthesis.                                       *)
(*                                                                         *)
(* Conventions                                                             *)
(*   - Option<T> is [some |-> BOOLEAN, val |-> T]; Option<Timestamp> is a  *)
(*     timestamp or NoTime.                                                *)
(*   - Strings that the code parses are sequences of one-character         *)
(*     strings; strings that are only compared are TLA+ strings.           *)
(*   - Every emitted event carries a field "at": the timestamp of the      *)
(*     protocol event whose handler appended it (NoTime for events         *)
(*     appended by the tick-end cleanup or by construction).  The code's   *)
(*     events have no such field; it is an annotation for stating the      *)
(*     timing properties and is never read by the modelled code.           *)
(***************************************************************************)
EXTENDS Integers, Sequences, FiniteSets, TLC

----------------------------------------------------------------------------
(* Program constants *)

RING_TIMEOUT_MS == 200
TOOL_TIMEOUT_MS == 500
XI_ALL_DEVICES == 0
\* Option<Timestamp>::None
NoTime == -1

(* Bounds of the model *)

\* Timestamps beyond the tool timeout, RING_TIMEOUT_MS apart.
MaxLate == 0
\* Protocol events drained by one pump call.
MaxDrain == 2

\* The timestamps the server stamps events with: 0, the two timeouts, and
\* MaxLate later ones.
Times ==
  {0, RING_TIMEOUT_MS, TOOL_TIMEOUT_MS}
    \cup {TOOL_TIMEOUT_MS + RING_TIMEOUT_MS * i : i \in 1..MaxLate}

----------------------------------------------------------------------------
(* Option values *)

None == [some |-> FALSE, val |-> <<>>]
Some(v) == [some |-> TRUE, val |-> v]

----------------------------------------------------------------------------
(* String helpers (Rust str methods used by the name heuristics) *)

\* str::strip_suffix
StripSuffix(s, suf) ==
  IF Len(s) >= Len(suf) /\ SubSeq(s, Len(s) - Len(suf) + 1, Len(s)) = suf
  THEN Some(SubSeq(s, 1, Len(s) - Len(suf)))
  ELSE None

\* str::strip_prefix
StripPrefix(s, pre) ==
  IF Len(s) >= Len(pre) /\ SubSeq(s, 1, Len(pre)) = pre
  THEN Some(SubSeq(s, Len(pre) + 1, Len(s)))
  ELSE None

\* str::rfind(char): the last position of c in s, 0 when absent
RFind(s, c) ==
  LET hits == {i \in 1..Len(s) : s[i] = c}
  IN IF hits = {} THEN 0 ELSE CHOOSE i \in hits : \A j \in hits : j <= i

\* str::find(char) in s[from..]: the first position >= from of c in s, 0 when absent
FindFrom(s, c, from) ==
  LET hits == {i \in from..Len(s) : s[i] = c}
  IN IF hits = {} THEN 0 ELSE CHOOSE i \in hits : \A j \in hits : i <= j

AsciiWhitespace == {" ", "\t", "\n", "\r"}

\* str::trim_ascii_end
RECURSIVE TrimAsciiEnd(_)
TrimAsciiEnd(s) ==
  IF Len(s) > 0 /\ s[Len(s)] \in AsciiWhitespace
  THEN TrimAsciiEnd(SubSeq(s, 1, Len(s) - 1))
  ELSE s

HexDigits == <<"0", "1", "2", "3", "4", "5", "6", "7", "8", "9", "a", "b", "c", "d", "e", "f">>
HexUpper == <<"0", "1", "2", "3", "4", "5", "6", "7", "8", "9", "A", "B", "C", "D", "E", "F">>

IsHexDigit(c) == \E i \in 1..16 : HexDigits[i] = c \/ HexUpper[i] = c
HexDigitValue(c) == (CHOOSE i \in 1..16 : HexDigits[i] = c \/ HexUpper[i] = c) - 1

RECURSIVE HexValue(_)
HexValue(digs) ==
  IF digs = <<>> THEN 0
  ELSE 16 * HexValue(SubSeq(digs, 1, Len(digs) - 1)) + HexDigitValue(digs[Len(digs)])

\* u64::from_str_radix(text, 16).ok(): an optional "+", then one or more hex
\* digits, at most 16 significant ones (more overflow a u64).
FromStrRadix16(text) ==
  LET digs == IF Len(text) > 0 /\ text[1] = "+" THEN Tail(text) ELSE text
      first == {i \in 1..Len(digs) : digs[i] # "0"}
      significant == IF first = {} THEN 0
                     ELSE Len(digs) + 1 - (CHOOSE i \in first : \A j \in first : i <= j)
  IN IF digs = <<>> \/ (\E i \in 1..Len(digs) : ~IsHexDigit(digs[i])) \/ significant > 16
     THEN None
     ELSE Some(HexValue(digs))

----------------------------------------------------------------------------
(* Name heuristics *)

SuffixPen == <<" ", "P", "e", "n">>
SuffixEraser == <<" ", "E", "r", "a", "s", "e", "r">>
SuffixPad == <<" ", "P", "a", "d">>

\* parse_tool_name: the closure try_parse_id
try_parse_id(name) ==
  LET open_paren == RFind(name, "(")
      close_paren == FindFrom(name, ")", open_paren + 1)
      name_text == TrimAsciiEnd(SubSeq(name, 1, open_paren - 1))
      id_text == SubSeq(name, open_paren + 1, close_paren - 1)
      hex == StripPrefix(id_text, <<"0", "x">>)
  IN IF open_paren = 0 \/ close_paren = 0 THEN None
     ELSE IF id_text = <<"0">> THEN Some([name |-> name_text, id |-> 0])
     ELSE IF hex.some
          THEN IF FromStrRadix16(hex.val).some
               THEN Some([name |-> name_text, id |-> FromStrRadix16(hex.val).val])
               ELSE None
          ELSE None

\* parse_tool_name giving the candidate tablet name as the friendly name
ToolName_without_kind(name, id_parse_result) ==
  LET human_readable == IF id_parse_result.some THEN id_parse_result.val.name ELSE name
      pen == StripSuffix(human_readable, SuffixPen)
      eraser == StripSuffix(human_readable, SuffixEraser)
  IN [human_readable |-> IF pen.some THEN pen.val
                         ELSE IF eraser.some THEN eraser.val ELSE human_readable,
      maybe_associated_tablet |-> IF pen.some THEN pen ELSE IF eraser.some THEN eraser ELSE None,
      id |-> IF id_parse_result.some THEN Some(id_parse_result.val.id) ELSE None]

\* parse_tool_name, after try_parse_id: the ToolName it returns
ToolName(name, id_parse_result) ==
  LET human_readable == IF id_parse_result.some THEN id_parse_result.val.name ELSE name
      pen == StripSuffix(human_readable, SuffixPen)
      eraser == StripSuffix(human_readable, SuffixEraser)
  IN [human_readable |-> human_readable,
      maybe_associated_tablet |-> IF pen.some THEN pen ELSE IF eraser.some THEN eraser ELSE None,
      id |-> IF id_parse_result.some THEN Some(id_parse_result.val.id) ELSE None]

\* parse_tool_name
parse_tool_name(name) == ToolName(name, try_parse_id(name))

\* pad_maybe_associated_tablet
pad_maybe_associated_tablet(name) ==
  LET prefix == StripSuffix(name, SuffixPad)
  IN IF prefix.some THEN Some(prefix.val \o SuffixPen) ELSE None

\* from_str with the arm for TYPE_MOUSE
from_str_with_mouse(device_type) ==
  CASE device_type = "STYLUS" -> Some([kind |-> "Tool", tool_type |-> "Pen"])
    [] device_type = "ERASER" -> Some([kind |-> "Tool", tool_type |-> "Eraser"])
    [] device_type = "MOUSE" -> Some([kind |-> "Tool", tool_type |-> "Mouse"])
    [] device_type = "PAD" -> Some([kind |-> "Pad", tool_type |-> ""])
    [] device_type = "TABLET" -> Some([kind |-> "Tablet", tool_type |-> ""])
    [] device_type = "xwayland-pointer" -> Some([kind |-> "Xwayland", tool_type |-> ""])
    [] OTHER -> None

\* DeviceTypeOrXwayland::from_str
DeviceTypeOrXwayland_from_str(device_type) ==
  CASE device_type = "STYLUS" -> Some([kind |-> "Tool", tool_type |-> "Pen"])
    [] device_type = "ERASER" -> Some([kind |-> "Tool", tool_type |-> "Eraser"])
    [] device_type = "PAD" -> Some([kind |-> "Pad", tool_type |-> ""])
    [] device_type = "TABLET" -> Some([kind |-> "Tablet", tool_type |-> ""])
    [] device_type = "xwayland-pointer" -> Some([kind |-> "Xwayland", tool_type |-> ""])
    [] OTHER -> None

XwaylandTablet == <<"x", "w", "a", "y", "l", "a", "n", "d", "-", "t", "a", "b", "l", "e", "t">>

\* xwayland_type_from_name
xwayland_type_from_name(device_name) ==
  LET class == StripPrefix(device_name, XwaylandTablet)
      colon == IF class.some THEN RFind(class.val, ":") ELSE 0
      cls == IF colon = 0 THEN <<>> ELSE SubSeq(class.val, 1, colon - 1)
  IN IF ~class.some \/ colon = 0 THEN None
     ELSE CASE cls = <<"-", "p", "a", "d">> -> Some([kind |-> "Pad", tool_type |-> ""])
            [] cls = <<" ", "s", "t", "y", "l", "u", "s">> -> Some([kind |-> "Tool", tool_type |-> "Pen"])
            [] cls = <<" ", "e", "r", "a", "s", "e", "r">> -> Some([kind |-> "Tool", tool_type |-> "Eraser"])
            [] OTHER -> None

----------------------------------------------------------------------------
(* Identity scheme *)

\* ID::EmulatedTablet
EmulatedTablet == [kind |-> "EmulatedTablet", generation |-> 0, device_id |-> 0]
\* ID::ID { generation, device_id }
MkID(generation, device_id) == [kind |-> "ID", generation |-> generation, device_id |-> device_id]

\* The derived Ord of ID: EmulatedTablet first, then by generation, then by device id
IdLess(a, b) ==
  \/ a.kind = "EmulatedTablet" /\ b.kind = "ID"
  \/ /\ a.kind = "ID" /\ b.kind = "ID"
     /\ \/ a.generation < b.generation
        \/ a.generation = b.generation /\ a.device_id < b.device_id

\* The keys of a BTreeMap in iteration order
RECURSIVE SortedIds(_)
SortedIds(S) ==
  IF S = {} THEN <<>>
  ELSE LET m == CHOOSE x \in S : \A y \in S \ {x} : IdLess(x, y)
       IN <<m>> \o SortedIds(S \ {m})

\* BTreeMap::insert
Insert(map, k, v) == [x \in DOMAIN map \cup {k} |-> IF x = k THEN v ELSE map[x]]

\* The empty BTreeMap
EmptyMap == [x \in {} |-> 0]

----------------------------------------------------------------------------
(* Events of the abstract batch: raw::Event<ID> *)

NoArg == [nil |-> TRUE]

ToolEvent(id, ev, arg) == [dev |-> "Tool", id |-> id, ev |-> ev, arg |-> arg]
PadEvent(id, ev, arg) == [dev |-> "Pad", id |-> id, ev |-> ev, arg |-> arg]

\* The events a handler appends, annotated with the timestamp of the
\* protocol event it handles.
Stamp(evs, at) ==
  [i \in 1..Len(evs) |->
     [dev |-> evs[i].dev, id |-> evs[i].id, ev |-> evs[i].ev, arg |-> evs[i].arg, at |-> at]]

----------------------------------------------------------------------------
(* Interaction state tracker *)

\* ToolInfo::take_timeout / RingInfo::take_timeout share one body, the
\* threshold aside: [fired, last_interaction after the call]
take_timeout(last_interaction, now, timeout_ms) ==
  IF last_interaction = NoTime THEN [fired |-> FALSE, last_interaction |-> last_interaction]
  ELSE IF last_interaction > now THEN [fired |-> FALSE, last_interaction |-> last_interaction]
  ELSE IF now - last_interaction >= timeout_ms
       THEN [fired |-> TRUE, last_interaction |-> NoTime]
       ELSE [fired |-> FALSE, last_interaction |-> last_interaction]

\* ToolInfo::take_timeout
tool_take_timeout(info, now) ==
  LET r == take_timeout(info.last_interaction, now, TOOL_TIMEOUT_MS)
  IN [fired |-> r.fired, info |-> [info EXCEPT !.last_interaction = r.last_interaction]]

\* RingInfo::take_timeout
ring_take_timeout(ring, now) ==
  LET r == take_timeout(ring.last_interaction, now, RING_TIMEOUT_MS)
  IN [fired |-> r.fired, ring |-> [ring EXCEPT !.last_interaction = r.last_interaction]]

\* set_phase's match with the arm (Out, Down) going straight to Down
ChangesNoImpliedIn(from, to) ==
  IF from = "Out" /\ to = "Down" THEN <<"Down">>
  ELSE CASE from = "Down" /\ to = "Out" -> <<"Up", "Out">>
         [] from = "Down" /\ to = "In" -> <<"Up">>
         [] from = "In" /\ to = "Out" -> <<"Out">>
         [] from = "In" /\ to = "Down" -> <<"Down">>
         [] from = "Out" /\ to = "In" -> <<"In">>
         [] OTHER -> <<>>

\* ToolInfo::set_phase: the match on (self.phase, phase)
Changes(from, to) ==
  CASE from = "Down" /\ to = "Out" -> <<"Up", "Out">>
    [] from = "Down" /\ to = "In" -> <<"Up">>
    [] from = "Down" /\ to = "Down" -> <<>>
    [] from = "In" /\ to = "Out" -> <<"Out">>
    [] from = "In" /\ to = "In" -> <<>>
    [] from = "In" /\ to = "Down" -> <<"Down">>
    [] from = "Out" /\ to = "Out" -> <<>>
    [] from = "Out" /\ to = "In" -> <<"In">>
    [] from = "Out" /\ to = "Down" -> <<"In", "Down">>

\* set_phase pushing the events of the match without storing the phase
set_phase_unrecorded(info, self_id, phase) ==
  LET changes == Changes(info.phase, phase)
  IN [info |-> info,
      out |-> [i \in 1..Len(changes) |->
                 ToolEvent(self_id, changes[i],
                           IF changes[i] = "In" THEN [tablet |-> info.tablet] ELSE NoArg)]]

\* ToolInfo::set_phase: [info after the call, events pushed]
set_phase(info, self_id, phase) ==
  LET changes == Changes(info.phase, phase)
  IN [info |-> [info EXCEPT !.phase = phase],
      out |-> [i \in 1..Len(changes) |->
                 ToolEvent(self_id, changes[i],
                           IF changes[i] = "In" THEN [tablet |-> info.tablet] ELSE NoArg)]]

\* ensure_in doing nothing in any phase
ensure_in_skipped(info, self_id) == [info |-> info, out |-> <<>>]

\* ToolInfo::ensure_in: [info after the call, events pushed]
ensure_in(info, self_id) ==
  IF info.phase = "Out"
  THEN [info |-> [info EXCEPT !.phase = "In"],
        out |-> <<ToolEvent(self_id, "In", [tablet |-> info.tablet])>>]
  ELSE [info |-> info, out |-> <<>>]

----------------------------------------------------------------------------
(* The server's device list: what xi_query_device and list_input_devices    *)
(* answer.                                                                 *)

\* xinput::Fp3232
FP(integral, frac) == [integral |-> integral, frac |-> frac]

ButtonClass(n) ==
  [class |-> "Button", num_buttons |-> n, label |-> "", mode |-> "", min |-> FP(0, 0),
   max |-> FP(0, 0), number |-> 0]
ValuatorClass(label, mode, min, max, number) ==
  [class |-> "Valuator", num_buttons |-> 0, label |-> label, mode |-> mode, min |-> min,
   max |-> max, number |-> number]

\* One device as the two queries describe it.  listed: in the answer of
\* list_input_devices; queried: in the answer of xi_query_device;
\* device_type: the name of the type atom, "" for atom 0.
Device(id, device_type, name, type_, attachment, classes) ==
  [id |-> id, listed |-> TRUE, queried |-> TRUE, utf8 |-> TRUE, device_type |-> device_type,
   name |-> name, type_ |-> type_, attachment |-> attachment, classes |-> classes]

NameCorePointer == <<"c", "o", "r", "e", " ", "p", "t", "r">>
NameCoreKeyboard == <<"c", "o", "r", "e", " ", "k", "b", "d">>
NameW == <<"W">>
Serial1a == <<" ", "(", "0", "x", "1", "a", ")">>
Serial0 == <<" ", "(", "0", ")">>

MasterPointer == Device(2, "", NameCorePointer, "MASTER_POINTER", 3, <<>>)
MasterKeyboard == Device(3, "", NameCoreKeyboard, "MASTER_KEYBOARD", 2, <<>>)
RingClass == ValuatorClass("Abs Wheel", "ABSOLUTE", FP(0, 0), FP(71, 0), 1)
PadW == Device(6, "PAD", NameW \o SuffixPad, "SLAVE_POINTER", 2, <<ButtonClass(1), RingClass>>)

\* The device lists the server can hold.
Configs ==
  << \* a tablet device, a stylus with a serial, a pad
     <<MasterPointer, MasterKeyboard,
       Device(4, "TABLET", NameW, "SLAVE_POINTER", 2, <<>>),
       Device(5, "STYLUS", NameW \o SuffixPen \o Serial1a, "SLAVE_POINTER", 2, <<>>),
       PadW>>,
     \* a tablet device, a stylus without a serial, a pad
     <<MasterPointer, MasterKeyboard,
       Device(4, "TABLET", NameW, "SLAVE_POINTER", 2, <<>>),
       Device(5, "STYLUS", NameW \o SuffixPen, "SLAVE_POINTER", 2, <<>>),
       PadW>>,
     \* the device carrying the tablet's name is a mouse; an eraser with the
     \* zero serial; the device carrying the pad's name is a touchpad
     <<MasterPointer, MasterKeyboard,
       Device(4, "MOUSE", NameW, "SLAVE_POINTER", 2, <<>>),
       Device(5, "ERASER", NameW \o SuffixEraser \o Serial0, "SLAVE_POINTER", 2, <<>>),
       Device(6, "TOUCHPAD", NameW \o SuffixPad, "SLAVE_POINTER", 2, <<ButtonClass(1)>>)>> >>

\* Raw device ids protocol events can carry: 0 (never a device) and the ids above.
DevIds == {0} \cup UNION {{Configs[c][i].id : i \in DOMAIN Configs[c]} : c \in DOMAIN Configs}

----------------------------------------------------------------------------
(* Device classifier: Manager::repopulate *)

\* device_queries.infos
Queried(devs) == SelectSeq(devs, LAMBDA d : d.queried)

\* device_queries.infos.iter().find(|qdevice| qdevice.deviceid == id)
FindQuery(devs, id) ==
  LET q == SelectSeq(Queried(devs), LAMBDA d : d.id = id)
  IN IF q = <<>> THEN None ELSE Some(q[1])

\* The id of the first queried device whose name is `expected`
FindByName(devs, expected, generation) ==
  LET q == SelectSeq(Queried(devs), LAMBDA d : d.utf8 /\ d.name = expected)
  IN IF q = <<>> THEN None ELSE Some(MkID(generation, q[1].id))

\* The attachment of the master a device is attached to, 0 when not found
MasterOf(devs, attachment) ==
  LET q == SelectSeq(Queried(devs), LAMBDA d : d.id = attachment)
  IN IF q = <<>> THEN 0 ELSE q[1].attachment

\* ValuatorAxis::from_str
ValuatorAxis_from_str(axis_label) ==
  IF axis_label \in {"Abs Pressure", "Abs Tilt X", "Abs Tilt Y", "Abs Wheel"}
  THEN Some(axis_label)
  ELSE None

\* The type resolution of one listed device: the role, or None to skip it
ResolveType(device) ==
  LET parsed == DeviceTypeOrXwayland_from_str(device.device_type)
  IN IF device.device_type = "" THEN None
     ELSE IF ~parsed.some THEN None
     ELSE IF parsed.val.kind = "Xwayland"
          THEN IF device.utf8 THEN xwayland_type_from_name(device.name) ELSE None
          ELSE parsed

\* The pad branch's scan of the classes: the last button count seen
RECURSIVE PadButtons(_, _)
PadButtons(classes, buttons) ==
  IF classes = <<>> THEN buttons
  ELSE PadButtons(Tail(classes),
                  IF Head(classes).class = "Button" THEN Head(classes).num_buttons ELSE buttons)

\* The pad branch's scan of the classes: the last usable "Abs Wheel" valuator
RECURSIVE PadRing(_, _)
PadRing(classes, ring_axis) ==
  IF classes = <<>> THEN ring_axis
  ELSE LET v == Head(classes)
           usable == /\ v.class = "Valuator"
                     /\ v.mode = "ABSOLUTE"
                     /\ ValuatorAxis_from_str(v.label) = Some("Abs Wheel")
                     /\ v.min # v.max
       IN PadRing(Tail(classes), IF usable THEN Some(v.number) ELSE ring_axis)

\* Transform::BiasScale of the pressure axis, bias -min and scale
\* 1 / (max - min), kept as the range it is computed from; of a tilt axis,
\* bias 0 and scale one degree in radians
PressureTransform(min, max) == [kind |-> "BiasScale", of |-> "range", min |-> min, max |-> max]
TiltTransform == [kind |-> "BiasScale", of |-> "deg_to_rad", min |-> FP(0, 0), max |-> FP(0, 0)]

\* The tool branch's scan of the classes ("Look for axes!"): the axis
\* tables [pressure, tilt] of x11_info after the classes
RECURSIVE ToolAxes(_, _)
ToolAxes(classes, axes) ==
  IF classes = <<>> THEN axes
  ELSE LET v == Head(classes)
           label == ValuatorAxis_from_str(v.label)
           usable == /\ v.class = "Valuator"
                     /\ v.mode = "ABSOLUTE"
                     /\ v.min # v.max
                     /\ label.some
           tilt == Some([index |-> v.number, transform |-> TiltTransform])
       IN ToolAxes(Tail(classes),
                   IF ~usable THEN axes
                   ELSE IF label.val = "Abs Pressure"
                   THEN [axes EXCEPT !.pressure =
                           Some([index |-> v.number,
                                 transform |-> PressureTransform(v.min, v.max)])]
                   ELSE IF label.val = "Abs Tilt X" THEN [axes EXCEPT !.tilt[1] = tilt]
                   ELSE IF label.val = "Abs Tilt Y" THEN [axes EXCEPT !.tilt[2] = tilt]
                   ELSE axes)

\* ToolInfo's axis tables before the scan
NoAxes == [pressure |-> None, tilt |-> <<None, None>>]

\* DeviceType::Tool(ty)
ClassifyTool(acc, devs, device, query, ty, generation) ==
  LET octotablet_id == MkID(generation, device.id)
      name_fields == IF device.utf8 THEN Some(parse_tool_name(device.name)) ELSE None
      expected == IF name_fields.some THEN name_fields.val.maybe_associated_tablet ELSE None
      tablet_id == IF expected.some THEN FindByName(devs, expected.val, generation) ELSE None
      octotablet_info ==
        [internal_id |-> octotablet_id,
         name |-> IF name_fields.some THEN Some(name_fields.val.human_readable) ELSE None,
         hardware_id |-> IF name_fields.some THEN name_fields.val.id ELSE None,
         tool_type |-> ty]
      axes == ToolAxes(query.classes, NoAxes)
      x11_info ==
        [pressure |-> axes.pressure,
         tilt |-> axes.tilt,
         tablet |-> IF tablet_id.some THEN tablet_id.val ELSE EmulatedTablet,
         phase |-> "Out",
         master_pointer |-> query.attachment,
         master_keyboard |-> MasterOf(devs, query.attachment),
         grabbed |-> FALSE,
         frame_pending |-> NoTime,
         last_interaction |-> NoTime]
  IN IF query.type_ # "SLAVE_POINTER" THEN acc
     ELSE [acc EXCEPT !.tool_listen_events = Append(@, device.id),
                      !.tools = Append(@, octotablet_info),
                      !.tool_infos = Insert(@, octotablet_id, x11_info)]

\* The pad branch without the test for a pad with nothing to offer
ClassifyPad_keeps_empty(acc, devs, device, query, generation) ==
  LET octotablet_id == MkID(generation, device.id)
      buttons == PadButtons(query.classes, 0)
      ring_axis == PadRing(query.classes, None)
      expected == IF device.utf8 THEN pad_maybe_associated_tablet(device.name) ELSE None
      tablet == IF expected.some THEN FindByName(devs, expected.val, generation) ELSE None
      primary_master == query.attachment
      other_master == MasterOf(devs, primary_master)
      keyboard == query.type_ \in {"MASTER_KEYBOARD", "SLAVE_KEYBOARD"}
      pad == [internal_id |-> octotablet_id, total_buttons |-> buttons, rings |-> ring_axis.some]
      info ==
        [ring |-> [some |-> ring_axis.some,
                   index |-> IF ring_axis.some THEN ring_axis.val ELSE 0,
                   last_interaction |-> NoTime],
         master_pointer |-> IF keyboard THEN primary_master ELSE other_master,
         master_keyboard |-> IF keyboard THEN other_master ELSE primary_master,
         tablet |-> IF tablet.some THEN tablet.val ELSE EmulatedTablet,
         grabbed |-> FALSE]
  IN IF query.type_ = "FLOATING_SLAVE" THEN acc
     ELSE [acc EXCEPT !.pads = Append(@, pad),
                      !.pad_listen_events = Append(@, device.id),
                      !.pad_infos = Insert(@, octotablet_id, info)]

\* DeviceType::Pad
ClassifyPad(acc, devs, device, query, generation) ==
  LET octotablet_id == MkID(generation, device.id)
      buttons == PadButtons(query.classes, 0)
      ring_axis == PadRing(query.classes, None)
      expected == IF device.utf8 THEN pad_maybe_associated_tablet(device.name) ELSE None
      tablet == IF expected.some THEN FindByName(devs, expected.val, generation) ELSE None
      primary_master == query.attachment
      other_master == MasterOf(devs, primary_master)
      keyboard == query.type_ \in {"MASTER_KEYBOARD", "SLAVE_KEYBOARD"}
      pad == [internal_id |-> octotablet_id, total_buttons |-> buttons, rings |-> ring_axis.some]
      info ==
        [ring |-> [some |-> ring_axis.some,
                   index |-> IF ring_axis.some THEN ring_axis.val ELSE 0,
                   last_interaction |-> NoTime],
         master_pointer |-> IF keyboard THEN primary_master ELSE other_master,
         master_keyboard |-> IF keyboard THEN other_master ELSE primary_master,
         tablet |-> IF tablet.some THEN tablet.val ELSE EmulatedTablet,
         grabbed |-> FALSE]
  IN IF query.type_ = "FLOATING_SLAVE" THEN acc
     ELSE IF buttons = 0 /\ ~ring_axis.some THEN acc
     ELSE [acc EXCEPT !.pads = Append(@, pad),
                      !.pad_listen_events = Append(@, device.id),
                      !.pad_infos = Insert(@, octotablet_id, info)]

\* DeviceType::Tablet
ClassifyTablet(acc, device, generation) ==
  [acc EXCEPT !.tablets =
     Append(@, [internal_id |-> MkID(generation, device.id),
                name |-> IF device.utf8 THEN Some(device.name) ELSE None])]

\* The body of the loop over the listed devices
ClassifyDevice(acc, devs, device, generation) ==
  LET query == FindQuery(devs, device.id)
      device_type == ResolveType(device)
  IN IF ~query.some THEN acc
     ELSE IF ~device_type.some THEN acc
     ELSE CASE device_type.val.kind = "Tool" ->
                 ClassifyTool(acc, devs, device, query.val, device_type.val.tool_type, generation)
            [] device_type.val.kind = "Pad" ->
                 ClassifyPad(acc, devs, device, query.val, generation)
            [] device_type.val.kind = "Tablet" ->
                 ClassifyTablet(acc, device, generation)

\* The loop over device_list.names.zip(device_list.devices)
RECURSIVE ClassifyAll(_, _, _, _)
ClassifyAll(acc, devs, i, generation) ==
  IF i > Len(devs) THEN acc
  ELSE ClassifyAll(IF devs[i].listed THEN ClassifyDevice(acc, devs, devs[i], generation) ELSE acc,
                   devs, i + 1, generation)

\* tablets.iter().any(|tablet| ... device_id == desired_tablet)
TabletSurvives(tablets, id) ==
  \E i \in 1..Len(tablets) :
    tablets[i].internal_id.kind = "ID" /\ tablets[i].internal_id.device_id = id.device_id

\* The loop over tool_infos.values_mut(): a reference to a device that is no
\* tablet becomes the emulated tablet
ResolveToolTablets(tool_infos, tablets) ==
  [id \in DOMAIN tool_infos |->
     IF tool_infos[id].tablet.kind = "ID" /\ ~TabletSurvives(tablets, tool_infos[id].tablet)
     THEN [tool_infos[id] EXCEPT !.tablet = EmulatedTablet]
     ELSE tool_infos[id]]

\* The loop over pad_infos: the pad records are left as they are
ResolvePadTablets(pad_infos, tablets) == pad_infos

\* wants_dummy_tablet after both loops
WantsDummyTablet(tool_infos, pad_infos, tablets) ==
  \/ \E id \in DOMAIN tool_infos : tool_infos[id].tablet = EmulatedTablet
  \/ \E id \in DOMAIN pad_infos :
       \/ pad_infos[id].tablet.kind = "ID" /\ ~TabletSurvives(tablets, pad_infos[id].tablet)
       \/ pad_infos[id].tablet = EmulatedTablet

\* The Enter event pushed for every pad, in map order
PadEnterEvents(pad_infos) ==
  LET ids == SortedIds(DOMAIN pad_infos)
  IN [i \in 1..Len(ids) |-> PadEvent(ids[i], "Enter", [tablet |-> pad_infos[ids[i]].tablet])]

EMULATED_TABLET_NAME ==
  <<"o", "c", "t", "o", "t", "a", "b", "l", "e", "t", " ", "e", "m", "u", "l", "a", "t", "e", "d">>

EmptyRegistry ==
  [tools |-> <<>>, tool_infos |-> EmptyMap, pads |-> <<>>, pad_infos |-> EmptyMap,
   tablets |-> <<>>, tool_listen_events |-> <<>>, pad_listen_events |-> <<>>]

\* The wildcard device id of the master devices
XI_ALL_MASTER_DEVICES == 1

\* The XIEventMask bits requested for a tool, for a pad, and for the
\* master devices
ToolEventMask ==
  {"BUTTON_PRESS", "BUTTON_RELEASE", "ENTER", "LEAVE", "FOCUS_IN", "FOCUS_OUT", "MOTION",
   "DEVICE_CHANGED"}
PadEventMask == {"BUTTON_PRESS", "BUTTON_RELEASE", "MOTION", "DEVICE_CHANGED"}
MasterEventMask == {"ENTER", "LEAVE", "FOCUS_IN", "FOCUS_OUT"}

EventMask(deviceid, mask) == [deviceid |-> deviceid, mask |-> mask]

\* The end of repopulate: the xi_select_events request sent for the
\* device ids collected by the pass, None when the pass returns before it
select_events(tool_listen_events, pad_listen_events) ==
  IF tool_listen_events = <<>> THEN None
  ELSE Some([k \in DOMAIN tool_listen_events |->
               EventMask(tool_listen_events[k], ToolEventMask)]
            \o [k \in DOMAIN pad_listen_events |->
                  EventMask(pad_listen_events[k], PadEventMask)]
            \o <<EventMask(XI_ALL_MASTER_DEVICES, MasterEventMask)>>)

\* repopulate after both re-resolution loops: the emulated tablet, and the
\* registries and pushed events the call leaves
Announced(scanned, tool_infos, pad_infos) ==
  [tools |-> scanned.tools,
   tool_infos |-> tool_infos,
   pads |-> scanned.pads,
   pad_infos |-> pad_infos,
   tablets |-> IF WantsDummyTablet(tool_infos, pad_infos, scanned.tablets)
               THEN Append(scanned.tablets,
                           [internal_id |-> EmulatedTablet, name |-> Some(EMULATED_TABLET_NAME)])
               ELSE scanned.tablets,
   out |-> PadEnterEvents(pad_infos),
   interest |-> select_events(scanned.tool_listen_events, scanned.pad_listen_events)]

\* repopulate after the loop over the listed devices
Resolved(scanned) ==
  Announced(scanned,
            ResolveToolTablets(scanned.tool_infos, scanned.tablets),
            ResolvePadTablets(scanned.pad_infos, scanned.tablets))

\* Manager::repopulate on the device list `devs`: the registries after the
\* call and the events it pushes
repopulate(devs, generation) == Resolved(ClassifyAll(EmptyRegistry, devs, 1, generation))

----------------------------------------------------------------------------
(* State *)

VARIABLES
  \* the position of the caller: "idle" between pump calls, "drain" inside
  \* pump's poll loop; the events this call has drained so far
  pc, drained,
  \* pump's local has_repopulated
  has_repopulated,
  \* Manager
  tool_infos, tools, pad_infos, pads, tablets, events, server_time, device_generation,
  \* per tool id, the stream of events emitted in earlier ticks, summarised:
  \* in: an In was emitted and no Out since; pose_at: the timestamp of the
  \* last Pose, kept while a later motion event can still carry it (it is the
  \* server time), else NoTime; framed: a Frame followed that Pose
  carry,
  \* the device list the server answered the last classification pass with
  scanned,
  \* the event-interest request the last classification pass sent, None
  \* when it sent none
  interest,
  \* the raw ids of the devices the server holds this client's grab on,
  \* followed where the server's side of the requests is specified
  \* (SpecServer) and left as it is elsewhere
  held,
  \* inside a pump call, the hierarchy events it has drained and the runs
  \* of repopulate it has made
  hierarchies, rebuilds,
  \* what the last pump call returned to its caller: "Ok", "Err", or "none"
  \* inside a call and before the first
  returned,
  \* the last direct call of a method under study, with its arguments and
  \* the state it was made in
  call

vars ==
  <<pc, drained, has_repopulated, tool_infos, tools, pad_infos, pads, tablets,
    events, server_time, device_generation, carry, scanned, interest, held,
    hierarchies, rebuilds, returned, call>>

registries == <<tool_infos, tools, pad_infos, pads, tablets>>

\* The ids a tool or pad can have
AllIds == {MkID(0, d) : d \in DevIds \ {0}}

\* The stream summary after one more event
CarryEvent(c, e) ==
  CASE e.ev = "In" -> [c EXCEPT !.in = TRUE]
    [] e.ev = "Out" -> [c EXCEPT !.in = FALSE]
    [] e.ev = "Pose" -> [c EXCEPT !.pose_at = e.at, !.framed = FALSE]
    [] e.ev = "Frame" -> [c EXCEPT !.framed = TRUE]
    [] OTHER -> c

RECURSIVE CarryOver(_, _, _)
CarryOver(c, id, evs) ==
  IF evs = <<>> THEN c
  ELSE CarryOver(IF Head(evs).dev = "Tool" /\ Head(evs).id = id THEN CarryEvent(c, Head(evs)) ELSE c,
                 id, Tail(evs))

\* The summary at the start of a tick: server timestamps never decrease, so
\* a Pose older than the server time is out of reach of later events
CarryAt(c, now) ==
  IF c.pose_at = now THEN c ELSE [c EXCEPT !.pose_at = NoTime, !.framed = FALSE]

NoCarry == [id \in AllIds |-> [in |-> FALSE, pose_at |-> NoTime, framed |-> FALSE]]
NoCall == [fn |-> "none"]

----------------------------------------------------------------------------
(* Manager::build_window: the state after construction *)

\* The registries and the event vector hold what a rebuild r left
Built(r) ==
  /\ tool_infos = r.tool_infos
  /\ tools = r.tools
  /\ pad_infos = r.pad_infos
  /\ pads = r.pads
  /\ tablets = r.tablets
  /\ events = Stamp(r.out, NoTime)
  /\ interest = r.interest

Init ==
  /\ pc = "idle"
  /\ drained = 0
  /\ has_repopulated = FALSE
  /\ device_generation = 0
  /\ server_time = 0
  /\ \E c \in DOMAIN Configs : scanned = Configs[c] /\ Built(repopulate(Configs[c], 0))
  /\ carry = NoCarry
  /\ hierarchies = 0
  /\ rebuilds = 0
  /\ held = {}
  /\ returned = "none"
  /\ call = NoCall

----------------------------------------------------------------------------
(* Lookups *)

\* tool_info_mut_from_device_id / pad_info_mut_from_device_id: the key, when
\* the raw id is non-zero and the map holds it under the current generation
info_from_device_id(id, infos, now_generation) ==
  IF id = 0 THEN None
  ELSE IF MkID(now_generation, id) \in DOMAIN infos THEN Some(MkID(now_generation, id))
  ELSE None

\* pad_mut_from_device_id: the position in the public pad list
pad_mut_from_device_id(id, infos, now_generation) ==
  LET hits == {i \in 1..Len(infos) : infos[i].internal_id = MkID(now_generation, id)}
  IN IF id = 0 \/ hits = {} THEN None
     ELSE Some(CHOOSE i \in hits : \A j \in hits : i <= j)

----------------------------------------------------------------------------
(* Grab arbitration *)

is_child(info, master) == info.master_pointer = master \/ info.master_keyboard = master

\* parent_entered marking the device whatever the request's status
grab_device_ignores_status(info, master, succeeded) ==
  IF info.grabbed \/ ~is_child(info, master) THEN info
  ELSE [info EXCEPT !.grabbed = TRUE]

\* parent_entered, one device: `succeeded` is the grab request's status
grab_device(info, master, succeeded) ==
  IF info.grabbed \/ ~is_child(info, master) THEN info
  ELSE IF succeeded THEN [info EXCEPT !.grabbed = TRUE] ELSE info

\* parent_entered: `ok` holds the raw ids whose grab request succeeds
parent_entered(infos, master, ok) ==
  [id \in DOMAIN infos |-> grab_device(infos[id], master, id.device_id \in ok)]

\* parent_left stamping the pending frame of a tool in any phase
release_tool_always_stamps(tool, id, master, time, succeeded) ==
  LET was_in == tool.phase \in {"In", "Down"}
      frame == IF was_in /\ tool.frame_pending # NoTime /\ tool.frame_pending # time
               THEN <<ToolEvent(id, "Frame", [time |-> tool.frame_pending])>>
               ELSE <<>>
      phased == set_phase([tool EXCEPT !.frame_pending = time], id, "Out")
  IN IF ~tool.grabbed \/ ~is_child(tool, master) THEN [info |-> tool, out |-> <<>>]
     ELSE [info |-> IF succeeded THEN [phased.info EXCEPT !.grabbed = FALSE] ELSE phased.info,
           out |-> frame \o phased.out]

\* parent_left releasing a tool without flushing its pending frame
release_tool_without_flush(tool, id, master, time, succeeded) ==
  LET was_in == tool.phase \in {"In", "Down"}
      pending == IF was_in THEN [tool EXCEPT !.frame_pending = time] ELSE tool
      phased == set_phase(pending, id, "Out")
  IN IF ~tool.grabbed \/ ~is_child(tool, master) THEN [info |-> tool, out |-> <<>>]
     ELSE [info |-> IF succeeded THEN [phased.info EXCEPT !.grabbed = FALSE] ELSE phased.info,
           out |-> phased.out]

\* parent_left, one tool: [info after, events pushed]
release_tool(tool, id, master, time, succeeded) ==
  LET was_in == tool.phase \in {"In", "Down"}
      frame == IF was_in /\ tool.frame_pending # NoTime /\ tool.frame_pending # time
               THEN <<ToolEvent(id, "Frame", [time |-> tool.frame_pending])>>
               ELSE <<>>
      pending == IF was_in THEN [tool EXCEPT !.frame_pending = time] ELSE tool
      phased == set_phase(pending, id, "Out")
  IN IF ~tool.grabbed \/ ~is_child(tool, master) THEN [info |-> tool, out |-> <<>>]
     ELSE [info |-> IF succeeded THEN [phased.info EXCEPT !.grabbed = FALSE] ELSE phased.info,
           out |-> frame \o phased.out]

\* parent_left, the loop over the tools in map order
RECURSIVE release_tools(_, _, _, _, _, _)
release_tools(infos, ids, master, time, ok, out) ==
  IF ids = <<>> THEN [infos |-> infos, out |-> out]
  ELSE LET id == Head(ids)
           r == release_tool(infos[id], id, master, time, id.device_id \in ok)
       IN release_tools([infos EXCEPT ![id] = r.info], Tail(ids), master, time, ok, out \o r.out)

\* parent_left unmarking the pad whatever the request's outcome
release_pad_ignores_status(pad, master, succeeded) ==
  IF ~pad.grabbed \/ ~is_child(pad, master) THEN pad
  ELSE [pad EXCEPT !.grabbed = FALSE]

\* parent_left, one pad
release_pad(pad, master, succeeded) ==
  IF ~pad.grabbed \/ ~is_child(pad, master) THEN pad
  ELSE IF succeeded THEN [pad EXCEPT !.grabbed = FALSE] ELSE pad

----------------------------------------------------------------------------
(* Tick-end synthesis: Manager::post_frame_cleanup *)

RingUp(id) == PadEvent(id, "RingUp", NoArg)

\* The loop over the pads: [pad_infos after, events pushed]
RECURSIVE cleanup_pads(_, _, _, _)
cleanup_pads(infos, ids, now, out) ==
  IF ids = <<>> THEN [infos |-> infos, out |-> out]
  ELSE LET id == Head(ids)
           t == ring_take_timeout(infos[id].ring, now)
       IN IF infos[id].ring.some
          THEN cleanup_pads([infos EXCEPT ![id].ring = t.ring], Tail(ids), now,
                            IF t.fired THEN Append(out, RingUp(id)) ELSE out)
          ELSE cleanup_pads(infos, Tail(ids), now, out)

\* One tool, the pending frame left where it is: only the timeout
cleanup_tool_without_flush(tool, id, now) ==
  LET t == tool_take_timeout(tool, now)
      phased == set_phase(t.info, id, "Out")
  IN IF t.fired THEN [info |-> phased.info, out |-> phased.out]
     ELSE [info |-> t.info, out |-> <<>>]

\* One tool: the pending frame, then the timeout
cleanup_tool(tool, id, now) ==
  LET frame == IF tool.frame_pending # NoTime
               THEN <<ToolEvent(id, "Frame", [time |-> tool.frame_pending])>>
               ELSE <<>>
      taken == [tool EXCEPT !.frame_pending = NoTime]
      t == tool_take_timeout(taken, now)
      phased == set_phase(t.info, id, "Out")
  IN IF t.fired THEN [info |-> phased.info, out |-> frame \o phased.out]
     ELSE [info |-> t.info, out |-> frame]

\* The loop over the tools: [tool_infos after, events pushed]
RECURSIVE cleanup_tools(_, _, _, _)
cleanup_tools(infos, ids, now, out) ==
  IF ids = <<>> THEN [infos |-> infos, out |-> out]
  ELSE LET id == Head(ids)
           r == cleanup_tool(infos[id], id, now)
       IN cleanup_tools([infos EXCEPT ![id] = r.info], Tail(ids), now, out \o r.out)

----------------------------------------------------------------------------
(* Event pump: the handlers of PlatformImpl::pump's match *)

U16_MAX == 65535

\* The tool branch of the button handler pushing a barrel button without
\* ensure_in
tool_button_unentered(tool, id, detail, pressed) ==
  LET e == ensure_in(tool, id)
      tip == set_phase(e.info, id, IF pressed THEN "Down" ELSE "In")
  IN IF detail > U16_MAX THEN [info |-> tool, out |-> <<>>]
     ELSE CASE detail = 0 -> [info |-> e.info, out |-> e.out]
            [] detail = 1 -> [info |-> tip.info, out |-> e.out \o tip.out]
            [] OTHER ->
                 [info |-> tool,
                  out |-> <<ToolEvent(id, "Button", [button_id |-> detail, pressed |-> pressed])>>]

\* XinputButtonPress | XinputButtonRelease on a known tool
tool_button(tool, id, detail, pressed) ==
  LET e == ensure_in(tool, id)
      tip == set_phase(e.info, id, IF pressed THEN "Down" ELSE "In")
  IN IF detail > U16_MAX THEN [info |-> tool, out |-> <<>>]
     ELSE CASE detail = 0 -> [info |-> e.info, out |-> e.out]
            [] detail = 1 -> [info |-> tip.info, out |-> e.out \o tip.out]
            [] OTHER ->
                 [info |-> e.info,
                  out |-> Append(e.out, ToolEvent(id, "Button",
                                                  [button_id |-> detail, pressed |-> pressed]))]

\* The pad branch of the button handler without the test against the
\* pad's button count
pad_button_unvalidated(pad, id, detail, pressed) ==
  IF detail = 0 THEN <<>>
  ELSE <<PadEvent(id, "Button", [button_idx |-> detail - 1, pressed |-> pressed])>>

\* XinputButtonPress | XinputButtonRelease on a known pad: the events pushed
pad_button(pad, id, detail, pressed) ==
  IF detail = 0 \/ detail > pad.total_buttons THEN <<>>
  ELSE <<PadEvent(id, "Button", [button_idx |-> detail - 1, pressed |-> pressed])>>

\* The closure valuator_fetch of the motion handler.  valuator_mask is a
\* sequence of 32-bit words, each the set of its set bits.
valuator_fetch(m, idx) ==
  LET word_idx == idx \div 32
      bit_idx == idx % 32
  IN IF word_idx + 1 > Len(m.valuator_mask) THEN None
     ELSE IF bit_idx \notin m.valuator_mask[word_idx + 1] THEN None
     ELSE IF Len(m.axisvalues) = 1 THEN Some(m.axisvalues[1])
     ELSE IF idx + 1 <= Len(m.axisvalues) THEN Some(m.axisvalues[idx + 1])
     ELSE None

\* tool.pressure / tool.tilt[k] .and_then(|axis| transform_fixed(
\* valuator_fetch(axis.index)?)): the sample the axis value is computed
\* from with the transform applied to it, or None
axis_sample(axis, m) ==
  IF ~axis.some THEN None
  ELSE LET raw == valuator_fetch(m, axis.val.index)
       IN IF raw.some THEN Some([raw |-> raw.val, transform |-> axis.val.transform])
          ELSE None

\* The axis fields of the Pose try_tool pushes; tilt is None when neither
\* tilt axis resolves, and a missing one of the two reads 0.0
pose_axes(tool, m) ==
  LET tilt_x == axis_sample(tool.tilt[1], m)
      tilt_y == axis_sample(tool.tilt[2], m)
  IN [pressure |-> axis_sample(tool.pressure, m),
      tilt |-> IF tilt_x.some \/ tilt_y.some THEN Some(<<tilt_x, tilt_y>>) ELSE None]

\* try_tool flushing the pending frame without comparing the timestamps
tool_motion_always_flushes(tool, id, m, time) ==
  LET frame == IF tool.frame_pending # NoTime
               THEN <<ToolEvent(id, "Frame", [time |-> tool.frame_pending])>>
               ELSE <<>>
      e == ensure_in([tool EXCEPT !.frame_pending = time], id)
  IN [info |-> e.info,
      out |-> frame \o e.out \o <<ToolEvent(id, "Pose", pose_axes(tool, m))>>]

\* The closure try_tool on a known tool: [info after, events pushed]
tool_motion(tool, id, m, time) ==
  LET frame == IF tool.frame_pending # NoTime /\ tool.frame_pending # time
               THEN <<ToolEvent(id, "Frame", [time |-> tool.frame_pending])>>
               ELSE <<>>
      e == ensure_in([tool EXCEPT !.frame_pending = time], id)
  IN [info |-> e.info,
      out |-> frame \o e.out \o <<ToolEvent(id, "Pose", pose_axes(tool, m))>>]

\* try_pad taking the ring's timeout after the pose and its frame
pad_motion_up_last(pad, id, m, now) ==
  LET raw_valuator_value == valuator_fetch(m, pad.ring.index)
      t == ring_take_timeout(pad.ring, now)
      up == IF t.fired THEN <<RingUp(id)>> ELSE <<>>
  IN IF ~pad.ring.some THEN [info |-> pad, out |-> <<>>]
     ELSE IF ~raw_valuator_value.some THEN [info |-> pad, out |-> <<>>]
     ELSE IF raw_valuator_value.val = FP(0, 0)
          THEN [info |-> [pad EXCEPT !.ring = t.ring], out |-> up]
          ELSE [info |-> [pad EXCEPT !.ring = [t.ring EXCEPT !.last_interaction = now]],
                out |-> <<PadEvent(id, "RingPose", [raw |-> raw_valuator_value.val]),
                          PadEvent(id, "RingFrame", [time |-> now])>> \o up]

\* try_pad without the test for the zero sample
pad_motion_zero_as_value(pad, id, m, now) ==
  LET raw_valuator_value == valuator_fetch(m, pad.ring.index)
      t == ring_take_timeout(pad.ring, now)
      up == IF t.fired THEN <<RingUp(id)>> ELSE <<>>
  IN IF ~pad.ring.some THEN [info |-> pad, out |-> <<>>]
     ELSE IF ~raw_valuator_value.some THEN [info |-> pad, out |-> <<>>]
     ELSE [info |-> [pad EXCEPT !.ring = [t.ring EXCEPT !.last_interaction = now]],
           out |-> up \o <<PadEvent(id, "RingPose", [raw |-> raw_valuator_value.val]),
                           PadEvent(id, "RingFrame", [time |-> now])>>]

\* The closure try_pad on a known pad: [info after, events pushed].  The
\* pose carries the raw sample it is computed from.
pad_motion(pad, id, m, now) ==
  LET raw_valuator_value == valuator_fetch(m, pad.ring.index)
      t == ring_take_timeout(pad.ring, now)
      up == IF t.fired THEN <<RingUp(id)>> ELSE <<>>
  IN IF ~pad.ring.some THEN [info |-> pad, out |-> <<>>]
     ELSE IF ~raw_valuator_value.some THEN [info |-> pad, out |-> <<>>]
     ELSE IF raw_valuator_value.val = FP(0, 0)
          THEN [info |-> [pad EXCEPT !.ring = t.ring], out |-> up]
          ELSE [info |-> [pad EXCEPT !.ring = [t.ring EXCEPT !.last_interaction = now]],
                out |-> up \o <<PadEvent(id, "RingPose", [raw |-> raw_valuator_value.val]),
                                PadEvent(id, "RingFrame", [time |-> now])>>]

----------------------------------------------------------------------------
(* Inputs *)

\* The raw id of a master device of another pair, which none of the listed
\* devices is attached to
ForeignMaster == 7
\* Raw ids of the master devices enter/leave/focus events name
Masters == {MasterPointer.id, MasterKeyboard.id, ForeignMaster}
\* Raw ids button and motion events name: 0 and the slave devices
SlaveIds == DevIds \ Masters
\* Button details: no button, the tip, a barrel button, one beyond u16
Details == {0, 1, 2, U16_MAX + 1}
\* (detail, pressed, emulated) of a button event; a pointer-emulated event
\* is dropped before its detail is read
ButtonInputs ==
  {<<detail, pressed, FALSE>> : detail \in Details, pressed \in BOOLEAN} \cup {<<1, TRUE, TRUE>>}
\* The raw ids of the classified tools and pads: the devices grab and
\* ungrab requests are issued for
Grabbable(tis, pis) == {id.device_id : id \in DOMAIN tis \cup DOMAIN pis}
\* Motion payloads: no valuator; the ring's valuator (slot 1) with the
\* zero sample and with a non-zero sample, as a single value
MotionPayloads ==
  {[valuator_mask |-> <<{}>>, axisvalues |-> <<>>],
   [valuator_mask |-> <<{1}>>, axisvalues |-> <<FP(0, 0)>>],
   [valuator_mask |-> <<{1}>>, axisvalues |-> <<FP(1, 0)>>]}

----------------------------------------------------------------------------
(* Actions *)

\* pre_frame_cleanup leaving the batch of the tick before in place
pre_frame_cleanup_keeps(evs) == evs

\* Manager::pre_frame_cleanup: the event vector after self.events.clear()
pre_frame_cleanup(evs) == <<>>

\* pump is called: pre_frame_cleanup, has_repopulated = false
PumpBegin ==
  /\ pc = "idle"
  /\ pc' = "drain"
  /\ drained' = 0
  /\ has_repopulated' = FALSE
  /\ events' = pre_frame_cleanup(events)
  /\ hierarchies' = 0
  /\ rebuilds' = 0
  /\ carry' = [id \in DOMAIN carry |-> CarryAt(CarryOver(carry[id], id, events), server_time)]
  /\ returned' = "none"
  /\ UNCHANGED <<registries, server_time, device_generation, scanned, interest, held, call>>

\* poll_for_event returns one more event, stamped t by the server; the
\* server's timestamps never decrease
Drain(t) ==
  /\ pc = "drain"
  /\ drained < MaxDrain
  /\ t >= server_time
  /\ drained' = drained + 1
  /\ UNCHANGED <<pc, device_generation, carry, returned, call>>

\* self.repopulate() in the handler of an event stamped t: the registries
\* are replaced and the pad announcements pushed
Rebuilt(r, t) ==
  /\ tool_infos' = r.tool_infos
  /\ tools' = r.tools
  /\ pad_infos' = r.pad_infos
  /\ pads' = r.pads
  /\ tablets' = r.tablets
  /\ events' = events \o Stamp(r.out, t)
  /\ interest' = r.interest
  /\ rebuilds' = rebuilds + 1

\* The grabs the server still holds once its device list is devs: a removed
\* device takes its grabs with it, a rebuild of the registries sends no
\* ungrab request
still_held(grabs, devs) == {d \in grabs : \E i \in DOMAIN devs : devs[i].id = d}

\* The hierarchy handler running the rebuild for every event
rebuild_on_every_event(repopulated) == TRUE

\* The hierarchy handler's test `if !has_repopulated`
needs_rebuild(repopulated) == ~repopulated

\* Event::XinputHierarchy; a rebuild finds the device list devs
Hierarchy(t, devs) ==
  /\ Drain(t)
  /\ server_time' = t
  /\ hierarchies' = hierarchies + 1
  /\ has_repopulated' = TRUE
  /\ IF needs_rebuild(has_repopulated)
     THEN scanned' = devs /\ Rebuilt(repopulate(devs, device_generation), t)
     ELSE UNCHANGED <<registries, events, scanned, interest, rebuilds>>

\* Event::XinputDeviceChanged: nothing is done, whatever the reason
DeviceChanged(t) ==
  /\ Drain(t)
  /\ UNCHANGED <<has_repopulated, scanned, interest, held, hierarchies, rebuilds, registries, events, server_time>>

\* The raw ids parent_entered (marked = FALSE) and parent_left (marked =
\* TRUE) send a request for: the devices attached to `master` whose flag is
\* `marked`
requested(tis, pis, master, marked) ==
  {id.device_id : id \in {i \in DOMAIN tis : is_child(tis[i], master) /\ tis[i].grabbed = marked}}
    \cup {id.device_id : id \in {i \in DOMAIN pis : is_child(pis[i], master) /\ pis[i].grabbed = marked}}

\* Event::XinputEnter | Event::XinputFocusIn
Enter(t, master, ok) ==
  /\ Drain(t)
  /\ server_time' = t
  /\ tool_infos' = parent_entered(tool_infos, master, ok)
  /\ pad_infos' = parent_entered(pad_infos, master, ok)
  /\ UNCHANGED <<has_repopulated, scanned, interest, hierarchies, rebuilds, tools, pads, tablets, events>>

\* Event::XinputLeave | Event::XinputFocusOut
Leave(t, master, ok) ==
  /\ Drain(t)
  /\ server_time' = t
  /\ LET r == release_tools(tool_infos, SortedIds(DOMAIN tool_infos), master, t, ok, <<>>)
     IN /\ tool_infos' = r.infos
        /\ events' = events \o Stamp(r.out, t)
  /\ pad_infos' = [id \in DOMAIN pad_infos |->
                     release_pad(pad_infos[id], master, id.device_id \in ok)]
  /\ UNCHANGED <<has_repopulated, scanned, interest, hierarchies, rebuilds, tools, pads, tablets>>

\* Event::XinputButtonPress | Event::XinputButtonRelease
Button(t, deviceid, detail, pressed, emulated) ==
  /\ Drain(t)
  /\ server_time' = t
  /\ LET tool == info_from_device_id(deviceid, tool_infos, device_generation)
         pad == pad_mut_from_device_id(deviceid, pads, device_generation)
     IN IF emulated THEN UNCHANGED <<tool_infos, events>>
        ELSE IF tool.some
        THEN LET r == tool_button(tool_infos[tool.val], tool.val, detail, pressed)
             IN /\ tool_infos' = [tool_infos EXCEPT ![tool.val] = r.info]
                /\ events' = events \o Stamp(r.out, t)
        ELSE IF pad.some
        THEN /\ events' = events \o Stamp(pad_button(pads[pad.val], MkID(device_generation, deviceid),
                                                      detail, pressed), t)
             /\ UNCHANGED tool_infos
        ELSE UNCHANGED <<tool_infos, events>>
  /\ UNCHANGED <<has_repopulated, scanned, interest, held, hierarchies, rebuilds, tools, pad_infos, pads, tablets>>

\* Event::XinputMotion
Motion(t, deviceid, payload) ==
  /\ Drain(t)
  /\ server_time' = t
  /\ LET tool == info_from_device_id(deviceid, tool_infos, device_generation)
         pad == info_from_device_id(deviceid, pad_infos, device_generation)
     IN IF tool.some
        THEN LET r == tool_motion(tool_infos[tool.val], tool.val, payload, t)
             IN /\ tool_infos' = [tool_infos EXCEPT ![tool.val] = r.info]
                /\ events' = events \o Stamp(r.out, t)
                /\ UNCHANGED pad_infos
        ELSE IF pad.some
        THEN LET r == pad_motion(pad_infos[pad.val], pad.val, payload, t)
             IN /\ pad_infos' = [pad_infos EXCEPT ![pad.val] = r.info]
                /\ events' = events \o Stamp(r.out, t)
                /\ UNCHANGED tool_infos
        ELSE UNCHANGED <<tool_infos, pad_infos, events>>
  /\ UNCHANGED <<has_repopulated, scanned, interest, held, hierarchies, rebuilds, tools, pads, tablets>>

\* How poll_for_event can end the loop: no event is queued, or the
\* connection fails
PollEnds == {"Ok(None)", "Err"}

\* pump's result after the loop was ended by `polled`: Ok(()) on every path
pump_result(polled) == "Ok"

\* poll_for_event returns no event or an error: post_frame_cleanup, and
\* pump returns, dropping its locals
PumpEnd(polled) ==
  /\ pc = "drain"
  /\ pc' = "idle"
  /\ LET p == cleanup_pads(pad_infos, SortedIds(DOMAIN pad_infos), server_time, <<>>)
         r == cleanup_tools(tool_infos, SortedIds(DOMAIN tool_infos), server_time, <<>>)
     IN /\ pad_infos' = p.infos
        /\ tool_infos' = r.infos
        /\ events' = events \o Stamp(p.out \o r.out, NoTime)
  /\ drained' = 0
  /\ has_repopulated' = FALSE
  /\ hierarchies' = 0
  /\ rebuilds' = 0
  /\ returned' = pump_result(polled)
  /\ UNCHANGED <<tools, pads, tablets, server_time, device_generation, carry, scanned, interest, held, call>>

Next ==
  \/ PumpBegin
  \/ \E t \in Times, c \in DOMAIN Configs : Hierarchy(t, Configs[c]) /\ UNCHANGED held
  \/ \E t \in Times : DeviceChanged(t)
  \/ \E t \in Times, master \in Masters, ok \in SUBSET Grabbable(tool_infos, pad_infos) :
       Enter(t, master, ok) /\ UNCHANGED held
  \/ \E t \in Times, master \in Masters, ok \in SUBSET Grabbable(tool_infos, pad_infos) :
       Leave(t, master, ok) /\ UNCHANGED held
  \/ \E t \in Times, deviceid \in SlaveIds, b \in ButtonInputs :
       Button(t, deviceid, b[1], b[2], b[3])
  \/ \E t \in Times, deviceid \in SlaveIds, payload \in MotionPayloads :
       Motion(t, deviceid, payload)
  \/ \E polled \in PollEnds : PumpEnd(polled)

Spec == Init /\ [][Next]_vars

----------------------------------------------------------------------------
(* ToolInfo::set_phase called directly: any sequence of phase requests on
   one tool, from any phase *)

Phases == {"Out", "In", "Down"}
\* Events the caller's vector may hold before a request is refused
MaxLog == 4
ProbeTool == MkID(0, 5)

InitPhase ==
  /\ pc = "idle"
  /\ drained = 0
  /\ has_repopulated = FALSE
  /\ device_generation = 0
  /\ server_time = 0
  /\ \E phase \in Phases, tablet \in {EmulatedTablet, MkID(0, 4)}, grabbed \in BOOLEAN :
       tool_infos = Insert(EmptyMap, ProbeTool,
                           [pressure |-> None, tilt |-> <<None, None>>,
                            tablet |-> tablet, phase |-> phase,
                            master_pointer |-> MasterPointer.id,
                            master_keyboard |-> MasterKeyboard.id,
                            grabbed |-> grabbed, frame_pending |-> NoTime,
                            last_interaction |-> NoTime])
  /\ tools = <<>>
  /\ pad_infos = EmptyMap
  /\ pads = <<>>
  /\ tablets = <<>>
  /\ events = <<>>
  /\ carry = NoCarry
  /\ scanned = <<>>
  /\ interest = None
  /\ hierarchies = 0
  /\ rebuilds = 0
  /\ held = {}
  /\ returned = "none"
  /\ call = NoCall

\* info.set_phase(self_id, phase, &mut events)
SetPhase(self_id, phase) ==
  /\ Len(events) < MaxLog
  /\ LET r == set_phase(tool_infos[self_id], self_id, phase)
     IN /\ tool_infos' = [tool_infos EXCEPT ![self_id] = r.info]
        /\ events' = events \o Stamp(r.out, NoTime)
  /\ call' = [fn |-> "set_phase", info |-> tool_infos[self_id], self_id |-> self_id,
              phase |-> phase, events |-> events]
  /\ UNCHANGED <<pc, drained, has_repopulated, tools, pad_infos, pads, tablets,
                 server_time, device_generation, carry, scanned, interest, held, hierarchies, rebuilds,
                 returned>>

NextPhase == \E phase \in Phases : SetPhase(ProbeTool, phase)

SpecPhase == InitPhase /\ [][NextPhase]_vars

----------------------------------------------------------------------------
(* Properties of the phase tracker *)

\* The transition table of the specification (section 4.4)
TransitionTable ==
  [p \in Phases \X Phases |->
     CASE p = <<"Out", "In">> -> <<"In">>
       [] p = <<"Out", "Down">> -> <<"In", "Down">>
       [] p = <<"In", "Down">> -> <<"Down">>
       [] p = <<"In", "Out">> -> <<"Out">>
       [] p = <<"Down", "In">> -> <<"Up">>
       [] p = <<"Down", "Out">> -> <<"Up", "Out">>
       [] OTHER -> <<>>]

\* The events a set_phase call appended to its caller's vector
Appended == SubSeq(events, Len(call.events) + 1, Len(events))

\* C1: whatever requests came before, a set_phase call appends to the
\* events already there exactly the table's events for (phase before,
\* requested phase), in order, each for the tool itself, and leaves the
\* tool in the requested phase.
C1_SetPhaseFollowsTable ==
  call.fn = "set_phase" =>
    /\ Len(events) >= Len(call.events)
    /\ SubSeq(events, 1, Len(call.events)) = call.events
    /\ [i \in DOMAIN Appended |-> Appended[i].ev]
         = TransitionTable[<<call.info.phase, call.phase>>]
    /\ \A i \in DOMAIN Appended :
         Appended[i].dev = "Tool" /\ Appended[i].id = call.self_id
    /\ tool_infos[call.self_id].phase = call.phase

\* An Out -> Down request made after earlier requests had emitted events
C1_Witness ==
  /\ call.fn = "set_phase"
  /\ call.info.phase = "Out"
  /\ call.phase = "Down"
  /\ call.events # <<>>
  /\ Len(Appended) = 2

----------------------------------------------------------------------------
(* Properties of the emitted stream.  The stream of a tool is the events of
   the earlier ticks, summarised in carry, followed by the current batch. *)

\* Walking a batch for one tool, starting inside (in) or outside its
\* proximity span: every event of one of the kinds is met inside
RECURSIVE Entered(_, _, _, _)
Entered(in, id, evs, kinds) ==
  IF evs = <<>> THEN TRUE
  ELSE LET e == Head(evs)
           mine == e.dev = "Tool" /\ e.id = id
       IN /\ (mine /\ e.ev \in kinds) => in
          /\ Entered(IF mine /\ e.ev = "In" THEN TRUE
                     ELSE IF mine /\ e.ev = "Out" THEN FALSE
                     ELSE in,
                     id, Tail(evs), kinds)

\* The positions of a batch holding an event of a kind for a tool
Positions(id, kind) ==
  {i \in DOMAIN events : events[i].dev = "Tool" /\ events[i].id = id /\ events[i].ev = kind}

\* C2: in the stream of each tool, over all ticks, every Down comes after
\* an In of that tool with no Out of that tool between the two.
C2_DownInsideProximity ==
  \A id \in AllIds : Entered(carry[id].in, id, events, {"Down"})

\* A Down whose In was emitted in an earlier tick
C2_Witness ==
  \E id \in AllIds : \E i \in Positions(id, "Down") :
    /\ carry[id].in
    /\ \A j \in 1..(i - 1) : events[j].ev # "In"

\* C3: in the stream of each tool, over all ticks, every Pose and every
\* Button comes after an In of that tool with no Out of that tool between.
C3_PoseAndButtonInsideProximity ==
  \A id \in AllIds : Entered(carry[id].in, id, events, {"Pose", "Button"})

\* A Pose and a Button in one batch, the tool being outside when the tick began
C3_Witness ==
  \E id \in AllIds :
    /\ ~carry[id].in
    /\ Positions(id, "Pose") # {}
    /\ Positions(id, "Button") # {}

\* The positions of a batch holding a Frame of a tool that carries a time
Frames(id, time) == {k \in Positions(id, "Frame") : events[k].arg.time = time}

\* C4: within one tick, when a Pose or a Button of a tool was emitted for
\* a protocol event stamped T and a later event of that tool, other than a
\* Frame, was emitted for a protocol event stamped T' # T, exactly one
\* Frame carrying T lies between the two.
C4_OneFrameBetweenTimestamps ==
  \A id \in AllIds : \A i, j \in DOMAIN events :
    ( /\ i < j
      /\ events[i].dev = "Tool" /\ events[i].id = id
      /\ events[i].ev \in {"Pose", "Button"}
      /\ events[j].dev = "Tool" /\ events[j].id = id
      /\ events[j].ev # "Frame"
      /\ events[i].at # NoTime /\ events[j].at # NoTime
      /\ events[i].at # events[j].at )
    => Cardinality({k \in Frames(id, events[i].at) : i < k /\ k < j}) = 1

\* Pairs of positions of a batch holding consecutive Poses of a tool that
\* were emitted for protocol events with the same stamp
SameTimePoses(id) ==
  {p \in Positions(id, "Pose") \X Positions(id, "Pose") :
     /\ p[1] < p[2]
     /\ events[p[1]].at = events[p[2]].at
     /\ \A k \in Positions(id, "Pose") : ~(p[1] < k /\ k < p[2])}

\* C5, for two motion events drained by the same tick: no Frame of the tool
\* lies between their Poses, the batch holds at most one Frame carrying
\* their timestamp T, and that Frame comes after both, pushed by the
\* handler of an event stamped otherwise or by the tick-end flush.
C5_SameTimeMotionsShareFrame ==
  \A id \in AllIds : \A p \in SameTimePoses(id) :
    /\ \A k \in Positions(id, "Frame") : ~(p[1] < k /\ k < p[2])
    /\ Cardinality(Frames(id, events[p[1]].at)) <= 1
    /\ \A k \in Frames(id, events[p[1]].at) : k > p[2] /\ events[k].at # events[p[1]].at

\* Two motion events with one timestamp in a tick whose flush framed them
C5_Witness ==
  /\ pc = "idle"
  /\ \E id \in AllIds : \E p \in SameTimePoses(id) :
       Cardinality(Frames(id, events[p[1]].at)) = 1

\* C5 as stated, for any two consecutive motion events: the same, and when
\* the first Pose of a batch carries the timestamp of the last Pose of the
\* earlier ticks, no Frame was emitted after that Pose.
C5_AsStated ==
  /\ C5_SameTimeMotionsShareFrame
  /\ \A id \in AllIds : \A i \in Positions(id, "Pose") :
       ( /\ \A k \in Positions(id, "Pose") : i <= k
         /\ events[i].at = carry[id].pose_at )
       => ~carry[id].framed

----------------------------------------------------------------------------
(* Properties of the timeouts *)

\* C6, the tool: at the end of a tick, a tool still in proximity whose last
\* Pose of the tick was emitted for an event stamped T, the server time
\* being T + 500 ms or later, is released by a synthetic Out.  (The last
\* interaction of a tool is the last value processed for it, C7.)
C6_ToolReleasedAtTimeout ==
  [][(pc = "drain" /\ pc' = "idle") =>
       \A id \in DOMAIN tool_infos : \A i \in Positions(id, "Pose") :
         ( /\ \A k \in Positions(id, "Pose") : k <= i
           /\ tool_infos[id].phase # "Out"
           /\ server_time >= events[i].at + TOOL_TIMEOUT_MS )
         => \E k \in (Len(events) + 1)..Len(events') :
              /\ events'[k].dev = "Tool" /\ events'[k].id = id
              /\ events'[k].ev = "Out"]_vars

\* C7: once the handler of a motion event stamped T has pushed a tool's
\* Pose, the tool's last_interaction is T; once it has pushed a ring's pose
\* and frame, the ring's last_interaction is T.
C7_LastInteractionIsEventTime ==
  (pc = "drain" /\ ~has_repopulated /\ events # <<>>) =>
    LET e == events[Len(events)]
    IN /\ (e.dev = "Tool" /\ e.ev = "Pose") => tool_infos[e.id].last_interaction = e.at
       /\ (e.dev = "Pad" /\ e.ev = "RingFrame") => pad_infos[e.id].ring.last_interaction = e.at

\* C8: no ring pose is computed from the zero sample.
C8_ZeroSampleIsNoPose ==
  \A i \in DOMAIN events :
    (events[i].dev = "Pad" /\ events[i].ev = "RingPose") => events[i].arg.raw # FP(0, 0)

\* The zero sample met a ring that had timed out: the motion handler
\* released the ring and pushed no pose after the release
C8_Witness ==
  \E i \in DOMAIN events :
    /\ events[i].dev = "Pad" /\ events[i].ev = "RingUp" /\ events[i].at # NoTime
    /\ \A k \in DOMAIN events : k > i => events[k].at # events[i].at

----------------------------------------------------------------------------
(* Properties of the registries *)

\* The ids of the tablet registry
TabletIds == {tablets[i].internal_id : i \in DOMAIN tablets}
\* The tablet ids the tools and pads are associated with
Associations ==
  {tool_infos[id].tablet : id \in DOMAIN tool_infos} \cup {pad_infos[id].tablet : id \in DOMAIN pad_infos}

\* C9: every tool and every pad is associated with a tablet of the
\* registry or with the emulated-tablet sentinel.
C9_AssociationsResolve ==
  \A t \in Associations : t = EmulatedTablet \/ t \in TabletIds

\* C10: the registry holds the emulated tablet once when a tool or a pad
\* is associated with the sentinel, and not at all otherwise.
C10_EmulatedTabletIffNeeded ==
  Cardinality({i \in DOMAIN tablets : tablets[i].internal_id = EmulatedTablet})
    = IF EmulatedTablet \in Associations THEN 1 ELSE 0

----------------------------------------------------------------------------
(* Properties of the enumeration epochs *)

\* C11: the step of the hierarchy handler that runs the rebuild (the one
\* that sets pump's has_repopulated) increments the device generation by
\* one.
C11_RebuildIncrementsGeneration ==
  [][(~has_repopulated /\ has_repopulated') => device_generation' = device_generation + 1]_vars

\* What a device list says about the raw id `raw`
ListedAs(devs, raw) == {devs[i] : i \in {j \in DOMAIN devs : devs[j].id = raw}}

\* C12: when a rebuild finds a raw id naming another device than the pass
\* before found there, the tool or pad id issued for that raw id before
\* the rebuild is not a key of the rebuilt tool and pad maps.
C12_StaleIdDoesNotAlias ==
  [][\A id \in DOMAIN tool_infos \cup DOMAIN pad_infos :
       (/\ ~has_repopulated /\ has_repopulated'
        /\ ListedAs(scanned, id.device_id) # ListedAs(scanned', id.device_id))
         => id \notin DOMAIN tool_infos' \cup DOMAIN pad_infos']_vars

----------------------------------------------------------------------------
(* Properties of the pump call *)

\* C13: a pump call whose poll loop is ended by a failure of the
\* connection returns an error result.
C13_PollFailureIsReported ==
  [][PumpEnd("Err") => returned' = "Err"]_vars

----------------------------------------------------------------------------
(* Properties of the grab arbitration *)

\* The raw ids of a set of tool and pad ids
RawIds(ids) == {id.device_id : id \in ids}

\* The devices of a map a grab is requested for on an entered notification
\* for `master`: attached to it and not marked grabbed
GrabCandidates(infos, master) ==
  {id \in DOMAIN infos :
     /\ infos[id].master_pointer = master \/ infos[id].master_keyboard = master
     /\ ~infos[id].grabbed}

\* The flags of `after` are those of `before`, but for the candidates,
\* whose flag says whether the request succeeded
GrabOutcome(before, after, master, ok) ==
  /\ DOMAIN after = DOMAIN before
  /\ \A id \in DOMAIN before :
       after[id].grabbed = IF id \in GrabCandidates(before, master)
                           THEN id.device_id \in ok
                           ELSE before[id].grabbed

UngrabCandidates(infos, master) ==
  {id \in DOMAIN infos :
     /\ infos[id].master_pointer = master \/ infos[id].master_keyboard = master
     /\ infos[id].grabbed}

\* The flags of `after` are those of `before`, but for the candidates,
\* whose flag is cleared when the request succeeded and kept when it failed
UngrabOutcome(before, after, master, ok) ==
  /\ DOMAIN after = DOMAIN before
  /\ \A id \in DOMAIN before :
       after[id].grabbed = IF id \in UngrabCandidates(before, master)
                           THEN id.device_id \notin ok
                           ELSE before[id].grabbed

\* C15: a left notification for a master clears the grabbed flag of the
\* grabbed tools and pads attached to it whose ungrab request succeeds, and
\* of no other device; a device whose request fails stays marked grabbed
\* (and so a candidate of the next left notification).
C15_LeaveUngrabsOnSuccess ==
  [][\A master \in Masters :
       \A ok \in SUBSET RawIds(UngrabCandidates(tool_infos, master)
                               \cup UngrabCandidates(pad_infos, master)) :
       Leave(server_time', master, ok)
         => /\ UngrabOutcome(tool_infos, tool_infos', master, ok)
            /\ UngrabOutcome(pad_infos, pad_infos', master, ok)]_vars

\* The one event of this pump call released a tool (its Out is in the
\* batch) and the tool is still marked grabbed: the ungrab failed
C15_Witness ==
  /\ pc = "drain"
  /\ drained = 1
  /\ \E id \in DOMAIN tool_infos : tool_infos[id].grabbed /\ Positions(id, "Out") # {}

----------------------------------------------------------------------------
(* Properties of the release on a left notification *)

\* The events a step appended to the batch for one tool
AppendedFor(id) ==
  SelectSeq(SubSeq(events', Len(events) + 1, Len(events')),
            LAMBDA e : e.dev = "Tool" /\ e.id = id)

\* The events a release at `time` owes a tool that is In or Down
ReleaseEvents(tool, id, time) ==
  (IF tool.frame_pending # NoTime /\ tool.frame_pending # time
   THEN <<ToolEvent(id, "Frame", [time |-> tool.frame_pending])>>
   ELSE <<>>)
  \o (IF tool.phase = "Down" THEN <<ToolEvent(id, "Up", NoArg)>> ELSE <<>>)
  \o <<ToolEvent(id, "Out", NoArg)>>

\* C16: a left notification at time T for a master appends, for each
\* grabbed tool attached to it that is In or Down: the Frame of the pending
\* timestamp when one is pending and is not T, then Up when the tool was
\* Down, then Out; the tool is Out afterwards.
C16_LeaveReleasesInOrder ==
  [][\A master \in Masters :
       \A ok \in SUBSET RawIds(UngrabCandidates(tool_infos, master)
                               \cup UngrabCandidates(pad_infos, master)) :
       Leave(server_time', master, ok)
         => \A id \in UngrabCandidates(tool_infos, master) :
              tool_infos[id].phase \in {"In", "Down"}
                => /\ Len(events') >= Len(events)
                   /\ AppendedFor(id)
                        = Stamp(ReleaseEvents(tool_infos[id], id, server_time'), server_time')
                   /\ tool_infos'[id].phase = "Out"]_vars

\* A batch in which a tool's pending Frame, its Up and its Out follow one
\* another: a tool that was Down with a frame pending has been released
C16_Witness ==
  /\ pc = "drain"
  /\ \E k \in DOMAIN events :
       /\ k + 2 \in DOMAIN events
       /\ events[k].dev = "Tool" /\ events[k].ev = "Frame"
       /\ events[k + 1].dev = "Tool" /\ events[k + 1].ev = "Up"
       /\ events[k + 2].dev = "Tool" /\ events[k + 2].ev = "Out"

\* The pump calls that drain only what bears on grabs and releases: entered
\* and left notifications, the tip button, motion without a valuator
NoValuator == [valuator_mask |-> <<{}>>, axisvalues |-> <<>>]

NextGrab ==
  \/ PumpBegin
  \/ \E t \in Times, master \in Masters, ok \in SUBSET Grabbable(tool_infos, pad_infos) :
       Enter(t, master, ok) /\ UNCHANGED held
  \/ \E t \in Times, master \in Masters, ok \in SUBSET Grabbable(tool_infos, pad_infos) :
       Leave(t, master, ok) /\ UNCHANGED held
  \/ \E t \in Times, deviceid \in SlaveIds, pressed \in BOOLEAN :
       Button(t, deviceid, 1, pressed, FALSE)
  \/ \E t \in Times, deviceid \in SlaveIds : Motion(t, deviceid, NoValuator)
  \/ \E polled \in PollEnds : PumpEnd(polled)

SpecGrab == Init /\ [][NextGrab]_vars

\* What parent_left does to the tools when the notification for `master`
\* is processed once more, at time t2 with ungrab outcomes ok2, in the
\* state a step leaves
ReleasedAgain(master, t2, ok2) ==
  release_tools(tool_infos', SortedIds(DOMAIN tool_infos'), master, t2, ok2, <<>>)

\* A second processing pushes nothing and keeps phase and pending frame
Harmless(again) ==
  /\ again.out = <<>>
  /\ \A id \in DOMAIN tool_infos' :
       /\ again.infos[id].phase = tool_infos'[id].phase
       /\ again.infos[id].frame_pending = tool_infos'[id].frame_pending

\* C22: after a left notification for a master has been processed,
\* processing a left notification for the same master again (at any time,
\* with any outcome of the ungrab requests it issues) appends no tool event and
\* leaves the phase and the pending-frame timestamp of every tool as the
\* first processing left them.
C22_ReleaseIsIdempotent ==
  [][\A master \in Masters :
       \A ok \in SUBSET RawIds(UngrabCandidates(tool_infos, master)
                               \cup UngrabCandidates(pad_infos, master)) :
       Leave(server_time', master, ok)
         => \A t2 \in Times, ok2 \in SUBSET RawIds(UngrabCandidates(tool_infos', master)) :
              Harmless(ReleasedAgain(master, t2, ok2))]_vars

\* Two events into a call, a tool released with a frame pending is still
\* marked grabbed: a second left notification goes through its release again
C22_Witness ==
  /\ pc = "drain"
  /\ drained = 2
  /\ \E id \in DOMAIN tool_infos :
       /\ tool_infos[id].grabbed
       /\ tool_infos[id].phase = "Out"
       /\ tool_infos[id].frame_pending # NoTime
       /\ Cardinality(Positions(id, "Out")) = 1

----------------------------------------------------------------------------
(* Properties of the classification by type label *)

\* The type labels of the recognized table
RecognizedLabels == {"STYLUS", "ERASER", "PAD", "TABLET", "xwayland-pointer"}

\* The ids of the tool registry and of the pad registry, internal and public
Registered ==
  DOMAIN tool_infos \cup DOMAIN pad_infos
    \cup {tools[i].internal_id : i \in DOMAIN tools}
    \cup {pads[i].internal_id : i \in DOMAIN pads}

\* C17: no device the last classification pass found with the label MOUSE,
\* or with any label outside the recognized table, is in the tool registry
\* or in the pad registry.
C17_UnrecognizedLabelsExcluded ==
  \A i \in DOMAIN scanned :
    scanned[i].device_type \notin RecognizedLabels
      => MkID(device_generation, scanned[i].id) \notin Registered

\* A rebuild found a mouse and a touchpad next to a tool it registered
C17_Witness ==
  /\ has_repopulated
  /\ \E i, j \in DOMAIN scanned :
       scanned[i].device_type = "MOUSE" /\ scanned[j].device_type = "TOUCHPAD"
  /\ tool_infos # EmptyMap

----------------------------------------------------------------------------
(* Properties of the event batch *)

\* s is an initial segment of t
IsPrefix(s, t) == Len(s) <= Len(t) /\ SubSeq(t, 1, Len(s)) = s

\* C18: between two pump calls nothing happens to the batch but the next
\* call, which starts by emptying it; inside a call events are only
\* appended.  So the batch a call leaves holds the events appended during
\* that call and no others, until the next call.
C18_BatchIsOfOneCall ==
  [][IF pc = "idle"
     THEN pc' = "drain" /\ events' = <<>>
     ELSE IsPrefix(events, events')]_vars

\* The batch a later call left: a tool's In was exposed by an earlier
\* batch, and the batch exposed now holds events of that tool without it
C18_Witness ==
  /\ pc = "idle"
  /\ returned = "Ok"
  /\ \E id \in DOMAIN tool_infos :
       /\ carry[id].in
       /\ Positions(id, "Pose") # {}
       /\ Positions(id, "In") = {}

----------------------------------------------------------------------------
(* Properties of the rebuild *)

\* C19: at every point of a pump call the rebuild has run once when the
\* call has drained a hierarchy event and not at all otherwise, and the
\* step that runs it is the one draining the call's first hierarchy event.
C19_OneRebuildPerCall ==
  [][/\ rebuilds' = (IF hierarchies' >= 1 THEN 1 ELSE 0)
     /\ rebuilds' > rebuilds => hierarchies = 0 /\ hierarchies' = 1]_vars

\* A call that has drained two hierarchy events
C19_Witness ==
  pc = "drain" /\ hierarchies = 2 /\ rebuilds = 1

----------------------------------------------------------------------------
(* Fixed-point samples: fixed32_to_f32.  An f32 is the record [m, e] of
   value m * 2^e with m odd, or m = 0 and e = 0; every value met here is in
   the normal range, so a value is an f32 when its odd m is below 2^24 in
   magnitude.  The two zeros are not told apart. *)

\* f32::MANTISSA_DIGITS
F32_MANTISSA_DIGITS == 24

RECURSIVE Pow2(_)
Pow2(n) == IF n = 0 THEN 1 ELSE 2 * Pow2(n - 1)

Abs(x) == IF x < 0 THEN -x ELSE x
Sign(x) == IF x < 0 THEN -1 ELSE 1
Min(a, b) == IF a <= b THEN a ELSE b

\* The record of the value m * 2^e
RECURSIVE Canon(_, _)
Canon(m, e) ==
  IF m = 0 THEN [m |-> 0, e |-> 0]
  ELSE IF m % 2 = 0 THEN Canon(m \div 2, e + 1)
  ELSE [m |-> m, e |-> e]

\* The low bits a magnitude has beyond the significand
RECURSIVE ExcessBits(_)
ExcessBits(a) == IF a < Pow2(F32_MANTISSA_DIGITS) THEN 0 ELSE 1 + ExcessBits(a \div 2)

\* The magnitude q * 2^k + r brought to q or q + 1: to nearest, ties to even
RoundedQuotient(q, r, half) ==
  IF r > half \/ (r = half /\ q % 2 = 1) THEN q + 1 ELSE q

\* The magnitude a with its k low bits rounded away
RoundBits(a, k) ==
  IF k = 0 THEN a ELSE RoundedQuotient(a \div Pow2(k), a % Pow2(k), Pow2(k - 1))

\* The f32 nearest to m * 2^e
RoundAway(m, e, k) == Canon(Sign(m) * RoundBits(Abs(m), k), e + k)
RoundToF32(m, e) == RoundAway(m, e, ExcessBits(Abs(m)))

\* `i as f32` for an i32 or u32 i
IntAsF32(i) == RoundToF32(i, 0)

\* x / 2^n: the division by a power of two is exact
F32DivPow2(x, n) == IF x.m = 0 THEN x ELSE [m |-> x.m, e |-> x.e - n]

\* x + y and x - y
F32AddAt(x, y, e) == RoundToF32(x.m * Pow2(x.e - e) + y.m * Pow2(y.e - e), e)
F32Add(x, y) ==
  IF y.m = 0 THEN x
  ELSE IF x.m = 0 THEN y
  ELSE F32AddAt(x, y, Min(x.e, y.e))
F32Sub(x, y) == F32Add(x, [m |-> -y.m, e |-> y.e])

\* fixed32_to_f32 converting the magnitude of the integral part
fixed32_to_f32_of_magnitude(fixed) ==
  IF fixed.integral > 0
  THEN F32Add(IntAsF32(Abs(fixed.integral)), F32DivPow2(IntAsF32(fixed.frac), 32))
  ELSE F32Sub(IntAsF32(Abs(fixed.integral)), F32DivPow2(IntAsF32(fixed.frac), 32))

\* fixed32_to_f32
fixed32_to_f32(fixed) ==
  IF fixed.integral > 0
  THEN F32Add(IntAsF32(fixed.integral), F32DivPow2(IntAsF32(fixed.frac), 32))
  ELSE F32Sub(IntAsF32(fixed.integral), F32DivPow2(IntAsF32(fixed.frac), 32))

\* Integral parts converted with every fractional part below
SmallIntegral == 8
\* Fractional parts, in units of 2^-32: 0, 1/8, 1/4, 3/8, 5/16, and one with
\* more bits than the significand holds
Fracs == {0, Pow2(29), Pow2(30), 3 * Pow2(29), 5 * Pow2(28), Pow2(30) + 1}
\* Integral parts around the end of the range in which every integer is an
\* f32, and the largest i32
LargeIntegrals ==
  {s * (Pow2(F32_MANTISSA_DIGITS) + d) : s \in {-1, 1}, d \in -1..3}
    \cup {s * 2147483647 : s \in {-1, 1}}

Samples ==
  {FP(i, f) : i \in -SmallIntegral..SmallIntegral, f \in Fracs}
    \cup {FP(i, 0) : i \in LargeIntegrals}

InitFixed ==
  /\ pc = "idle"
  /\ drained = 0
  /\ has_repopulated = FALSE
  /\ device_generation = 0
  /\ server_time = 0
  /\ tool_infos = EmptyMap
  /\ tools = <<>>
  /\ pad_infos = EmptyMap
  /\ pads = <<>>
  /\ tablets = <<>>
  /\ events = <<>>
  /\ carry = NoCarry
  /\ scanned = <<>>
  /\ interest = None
  /\ hierarchies = 0
  /\ rebuilds = 0
  /\ held = {}
  /\ returned = "none"
  /\ call = NoCall

\* fixed32_to_f32(fixed)
Convert(fixed) ==
  /\ call' = [fn |-> "fixed32_to_f32", fixed |-> fixed, result |-> fixed32_to_f32(fixed)]
  /\ UNCHANGED <<pc, drained, has_repopulated, registries, events, server_time,
                 device_generation, carry, scanned, interest, held, hierarchies, rebuilds, returned>>

NextFixed == \E fixed \in Samples : Convert(fixed)

SpecFixed == InitFixed /\ [][NextFixed]_vars

\* The last call converted a sample with integral part in `range` and a
\* zero fractional part
WholeSample(range) ==
  call.fn = "fixed32_to_f32" /\ call.fixed.frac = 0 /\ call.fixed.integral \in range

\* C20: a sample with fractional part 0 and an integral part I of
\* magnitude 2^24 at most, positive, negative or zero, converts to the float
\* of value I.
C20_WholeSampleIsExact ==
  WholeSample(-Pow2(F32_MANTISSA_DIGITS)..Pow2(F32_MANTISSA_DIGITS))
    => call.result = Canon(call.fixed.integral, 0)

\* A negative whole sample converted to its value
C20_Witness ==
  /\ WholeSample(-Pow2(F32_MANTISSA_DIGITS)..-1)
  /\ call.result = Canon(call.fixed.integral, 0)

\* C20 as stated: a sample with fractional part 0 and any integral part I
\* converts to the float of value I.
C20_AsStated ==
  WholeSample(-2147483647..2147483647) => call.result = Canon(call.fixed.integral, 0)

----------------------------------------------------------------------------
(* Tool names: parse_tool_name called on names put together from a stem, a
   kind word and a serial field *)

NameIntuos == <<"I", "n", "t", "u", "o", "s", " ", "P", "r", "o", " ", "S">>
Serial123abc == <<" ", "(", "0", "x", "1", "2", "3", "a", "b", "c", ")">>

\* What comes before the kind word
NameStems == {NameIntuos, NameW, <<>>, <<"A">> \o SuffixPen, <<"B", "-", "2">>}
\* The kind word, with its leading space
NameKinds == {SuffixPen, SuffixEraser, SuffixPad, <<" ", "p", "e", "n">>, <<>>}
\* Serial fields the heuristic reads, with the hardware id each one spells
ReadSerials ==
  {[text |-> Serial0, id |-> 0], [text |-> Serial1a, id |-> 26],
   [text |-> Serial123abc, id |-> 1194684]}
\* Serial fields it does not read: none, no 0x prefix, no digits
UnreadSerials == {<<>>, <<" ", "(", "1", "a", ")">>, <<" ", "(", "0", "x", ")">>}
NameSerials == {s.text : s \in ReadSerials} \cup UnreadSerials

InitName ==
  /\ pc = "idle"
  /\ drained = 0
  /\ has_repopulated = FALSE
  /\ device_generation = 0
  /\ server_time = 0
  /\ tool_infos = EmptyMap
  /\ tools = <<>>
  /\ pad_infos = EmptyMap
  /\ pads = <<>>
  /\ tablets = <<>>
  /\ events = <<>>
  /\ carry = NoCarry
  /\ scanned = <<>>
  /\ interest = None
  /\ hierarchies = 0
  /\ rebuilds = 0
  /\ held = {}
  /\ returned = "none"
  /\ call = NoCall

\* parse_tool_name(stem + kind + serial)
ParseToolName(stem, kind, serial) ==
  /\ call' = [fn |-> "parse_tool_name", stem |-> stem, kind |-> kind, serial |-> serial,
              result |-> parse_tool_name(stem \o kind \o serial)]
  /\ UNCHANGED <<pc, drained, has_repopulated, registries, events, server_time,
                 device_generation, carry, scanned, interest, held, hierarchies, rebuilds, returned>>

NextName ==
  \E stem \in NameStems, kind \in NameKinds, serial \in NameSerials :
    ParseToolName(stem, kind, serial)

SpecName == InitName /\ [][NextName]_vars

\* The last call parsed a name with the kind word Pen or Eraser and a
\* serial field the heuristic reads
ParsedSerialName ==
  /\ call.fn = "parse_tool_name"
  /\ call.kind \in {SuffixPen, SuffixEraser}
  /\ call.serial \in {s.text : s \in ReadSerials}

\* The hardware id the serial field of the last call spells
SpelledId == (CHOOSE s \in ReadSerials : s.text = call.serial).id

\* C21: a name made of a stem, " Pen" or " Eraser" and a serial field
\* "(0)" or "(0x<hex>)" parses to the hardware id the field spells, to the
\* stem as the candidate tablet name, and to the name without the serial
\* field, kind word included, as the human-readable name: "Intuos Pro S Pen
\* (0x123abc)" gives "Intuos Pro S Pen", 0x123abc and "Intuos Pro S".
C21_NameFields ==
  ParsedSerialName
    => /\ call.result.id = Some(SpelledId)
       /\ call.result.maybe_associated_tablet = Some(call.stem)
       /\ call.result.human_readable = call.stem \o call.kind

\* The name of the example has been parsed
C21_Witness ==
  /\ ParsedSerialName
  /\ call.stem = NameIntuos /\ call.kind = SuffixPen /\ call.serial = Serial123abc
  /\ call.result = [human_readable |-> NameIntuos \o SuffixPen,
                    maybe_associated_tablet |-> Some(NameIntuos),
                    id |-> Some(1194684)]

\* C21 as stated: the human-readable name is the stem, the kind word
\* stripped with the serial field.
C21_AsStated ==
  ParsedSerialName
    => /\ call.result.id = Some(SpelledId)
       /\ call.result.maybe_associated_tablet = Some(call.stem)
       /\ call.result.human_readable = call.stem

----------------------------------------------------------------------------
(* Properties of the button handler *)

\* The kinds of a sequence of events
KindsOf(evs) == [i \in DOMAIN evs |-> evs[i].ev]

\* The phase ensure_in leaves a tool of phase p in
EnsuredIn(p) == IF p = "Out" THEN "In" ELSE p

\* A step appended for the tool `id` the events of the table for (before,
\* after) and then `more`, left the tool in phase `after`, and appended
\* nothing else
ToolStepped(id, after, more) ==
  /\ Len(events') = Len(events) + Len(AppendedFor(id))
  /\ SubSeq(events', 1, Len(events)) = events
  /\ KindsOf(AppendedFor(id)) = TransitionTable[<<tool_infos[id].phase, after>>] \o KindsOf(more)
  /\ \A i \in DOMAIN more : AppendedFor(id)[Len(AppendedFor(id)) - Len(more) + i].arg = more[i].arg
  /\ tool_infos'[id].phase = after

\* What a button event with the given fields owes the known tool `id`;
\* `barrel` holds the indexes that are reported as a Button event, any
\* other index but 0 and 1 being dropped
ToolButtonOutcome(id, detail, pressed, emulated, barrel) ==
  IF emulated THEN tool_infos' = tool_infos /\ events' = events
  ELSE IF detail = 1 THEN ToolStepped(id, IF pressed THEN "Down" ELSE "In", <<>>)
  ELSE IF detail \in barrel
       THEN ToolStepped(id, EnsuredIn(tool_infos[id].phase),
                        <<ToolEvent(id, "Button", [button_id |-> detail, pressed |-> pressed])>>)
  ELSE IF detail # 0 THEN tool_infos' = tool_infos /\ events' = events
  ELSE TRUE

\* Every button step on a known tool has the outcome owed for the indexes
\* `barrel`
ToolButtonsReported(barrel) ==
  \A deviceid \in SlaveIds, b \in ButtonInputs :
    (/\ MkID(device_generation, deviceid) \in DOMAIN tool_infos
     /\ Button(server_time', deviceid, b[1], b[2], b[3]))
      => ToolButtonOutcome(MkID(device_generation, deviceid), b[1], b[2], b[3], barrel)

\* C23: a button event on a known tool, not pointer-emulated: index 1
\* pressed leaves the tool Down and index 1 released leaves it In, with the
\* events of the transition table; an index from 2 to 65535 appends the
\* events of ensure_in and one Button event with that index and the
\* pressed flag, the phase being the one ensure_in left; an index above
\* 65535 appends nothing and changes no tool.  A pointer-emulated event
\* appends nothing and changes no tool.
C23_ToolButtons ==
  [][ToolButtonsReported(2..U16_MAX)]_vars

\* A barrel button pressed on a tool that was out of proximity
C23_Witness ==
  /\ pc = "drain"
  /\ \E k \in DOMAIN events :
       /\ k + 1 \in DOMAIN events
       /\ events[k].dev = "Tool" /\ events[k].ev = "In"
       /\ events[k + 1].dev = "Tool" /\ events[k + 1].ev = "Button"
       /\ events[k + 1].arg = [button_id |-> 2, pressed |-> TRUE]

\* C23 as stated: every index other than 0 and 1 is reported as a Button
\* event.
C23_AsStated ==
  [][ToolButtonsReported(Details \ {0, 1})]_vars

\* The events a step appended to the batch
AppendedAll == SubSeq(events', Len(events) + 1, Len(events'))

\* The button count of the public pad record of `id`
ButtonCount(id) == pads[CHOOSE i \in DOMAIN pads : pads[i].internal_id = id].total_buttons

\* The raw ids of the known pads that are not known tools
KnownPads ==
  {d \in SlaveIds : /\ \E i \in DOMAIN pads : pads[i].internal_id = MkID(device_generation, d)
                    /\ MkID(device_generation, d) \notin DOMAIN tool_infos}

\* What a button event with 1-based index `detail` owes the known pad `id`
PadButtonOutcome(id, detail, pressed, at) ==
  /\ SubSeq(events', 1, Len(events)) = events
  /\ AppendedAll
       = IF 1 <= detail /\ detail <= ButtonCount(id)
         THEN Stamp(<<PadEvent(id, "Button", [button_idx |-> detail - 1, pressed |-> pressed])>>, at)
         ELSE <<>>
  /\ \A i \in DOMAIN AppendedAll :
       AppendedAll[i].arg.button_idx \in 0..(ButtonCount(id) - 1)

\* Every button step on a known pad, for the button events `inputs`, has
\* the outcome owed
PadButtonsReported(inputs) ==
  \A deviceid \in KnownPads, b \in inputs :
    Button(server_time', deviceid, b[1], b[2], b[3])
      => PadButtonOutcome(MkID(device_generation, deviceid), b[1], b[2], server_time')

\* C24: a button event that is not pointer-emulated, with 1-based index b,
\* on a known pad with n buttons appends exactly one Pad Button event, of
\* index b - 1, when 1 <= b <= n, and nothing when b = 0 or b > n; the
\* index appended lies in 0..n-1.
C24_PadButtons ==
  [][PadButtonsReported({b \in ButtonInputs : ~b[3]})]_vars

\* A batch holding the Button event of a pad, of index 0
C24_Witness ==
  /\ pc = "drain"
  /\ \E k \in DOMAIN events :
       /\ events[k].dev = "Pad" /\ events[k].ev = "Button"
       /\ events[k].arg.button_idx = 0

\* C24 as stated: for every button event on a known pad, pointer-emulated
\* or not.
C24_AsStated ==
  [][PadButtonsReported(ButtonInputs)]_vars

----------------------------------------------------------------------------
(* Valuator slots of a motion event *)

\* The valuator slots a motion event of this development reports on
MaxSlot == 3
\* Integral parts the first reported value starts from
ValueBases == {0, 4}

\* The number of set bits of the mask word up to and including bit idx: the
\* position of slot idx's value among the values on the wire
Rank(word, idx) == Cardinality({b \in word : b <= idx})

\* A motion event as the server sends it: one value per set mask bit, in
\* the order of the bits
WirePayload(word, base) ==
  [valuator_mask |-> <<word>>,
   axisvalues |-> [k \in 1..Cardinality(word) |-> FP(base + k, 0)]]
WirePayloads ==
  {WirePayload(word, base) : word \in SUBSET (0..MaxSlot), base \in ValueBases}

\* valuator_fetch(idx) within the handler of the motion event m
Fetch(m, idx) ==
  /\ call' = [fn |-> "valuator_fetch", m |-> m, idx |-> idx,
              result |-> valuator_fetch(m, idx)]
  /\ UNCHANGED <<pc, drained, has_repopulated, registries, events, server_time,
                 device_generation, carry, scanned, interest, held, hierarchies, rebuilds, returned>>

NextFetch ==
  \E m \in WirePayloads, idx \in 0..MaxSlot : Fetch(m, idx)

SpecFetch == InitName /\ [][NextFetch]_vars

\* The value the event reports for slot idx: absent when the bit is clear,
\* else the value at the slot's position among the set bits
Reported(m, idx) ==
  IF idx \notin m.valuator_mask[1] THEN None
  ELSE Some(m.axisvalues[Rank(m.valuator_mask[1], idx)])

\* C25: in a motion event, slot i resolves to absent when bit i of the mask
\* is clear; to the only value when bit i is set and the event holds exactly
\* one value, whatever i; otherwise to the value the event reports for slot
\* i, the values being one per set mask bit.
C25_SlotValue ==
  call.fn = "valuator_fetch" =>
    call.result =
      IF call.idx \notin call.m.valuator_mask[1] THEN None
      ELSE IF Len(call.m.axisvalues) = 1 THEN Some(call.m.axisvalues[1])
      ELSE Reported(call.m, call.idx)

----------------------------------------------------------------------------
(* Properties of the tracked server time *)

\* The step handles one drained event the server stamped t
Handled(t) ==
  \/ \E c \in DOMAIN Configs : Hierarchy(t, Configs[c])
  \/ DeviceChanged(t)
  \/ \E master \in Masters, ok \in SUBSET Grabbable(tool_infos, pad_infos) :
       Enter(t, master, ok) \/ Leave(t, master, ok)
  \/ \E deviceid \in SlaveIds, b \in ButtonInputs :
       Button(t, deviceid, b[1], b[2], b[3])
  \/ \E deviceid \in SlaveIds, payload \in MotionPayloads :
       Motion(t, deviceid, payload)

\* C26: the tracked server time never decreases over the drained events,
\* and once an event carrying the timestamp t has been handled the server
\* time is at least t.
C26_ServerTimeFedByEveryEvent ==
  [][/\ server_time' >= server_time
     /\ \A t \in Times : Handled(t) => server_time' >= t]_vars

----------------------------------------------------------------------------
(* Classification passes over varied device lists *)

\* Valuator classes of a tool: pressure at slot 2, tilt X at slot 3, each
\* with a usable range or with the degenerate range min = max
PressureClass == ValuatorClass("Abs Pressure", "ABSOLUTE", FP(0, 0), FP(1023, 0), 2)
FlatPressureClass == ValuatorClass("Abs Pressure", "ABSOLUTE", FP(0, 0), FP(0, 0), 2)
TiltXClass == ValuatorClass("Abs Tilt X", "ABSOLUTE", FP(-64, 0), FP(63, 0), 3)
FlatTiltXClass == ValuatorClass("Abs Tilt X", "ABSOLUTE", FP(0, 0), FP(0, 0), 3)
\* The ring's valuator with the degenerate range
FlatRingClass == ValuatorClass("Abs Wheel", "ABSOLUTE", FP(0, 0), FP(0, 0), 1)

\* What the server can list as device 4, as device 5 and as device 6:
\* nothing, or one device
TabletChoices == {<<>>, <<Device(4, "TABLET", NameW, "SLAVE_POINTER", 2, <<>>)>>}
ToolChoices ==
  {<<>>}
    \cup {<<Device(5, "STYLUS", NameW \o SuffixPen \o Serial1a, "SLAVE_POINTER", 2, classes)>> :
            classes \in {<<>>, <<PressureClass, FlatTiltXClass>>,
                         <<FlatPressureClass, TiltXClass>>}}
    \cup {<<Device(5, "ERASER", NameW \o SuffixEraser \o Serial0, "SLAVE_POINTER", 2,
                   <<FlatPressureClass>>)>>}
PadChoices ==
  {<<>>, <<PadW>>,
   <<Device(6, "TOUCHPAD", NameW \o SuffixPad, "SLAVE_POINTER", 2, <<ButtonClass(1)>>)>>}
    \cup {<<Device(6, "PAD", NameW \o SuffixPad, "SLAVE_POINTER", 2, classes)>> :
            classes \in {<<ButtonClass(1), FlatRingClass>>, <<FlatRingClass>>}}

\* The device lists of these passes: the two master devices and any choice
\* of the three.  Every event of these pump calls is stamped with the time
\* of the one before
ScanLists ==
  {<<MasterPointer, MasterKeyboard>> \o tablet \o tool \o pad :
     tablet \in TabletChoices, tool \in ToolChoices, pad \in PadChoices}

\* The value a motion event of these passes reports for a slot: one value
\* per slot, none of them zero
SlotValue(slot) == FP(slot + 1, 0)

\* The motion event reporting the slots of `word`: one value per set bit, in
\* the order of the bits
SlotPayload(word) ==
  [valuator_mask |-> <<word>>,
   axisvalues |-> [k \in 1..Cardinality(word) |->
                     SlotValue(CHOOSE slot \in word : Rank(word, slot) = k)]]
ScanPayloads == {SlotPayload(word) : word \in SUBSET (1..MaxSlot)}

InitScan ==
  /\ pc = "idle"
  /\ drained = 0
  /\ has_repopulated = FALSE
  /\ device_generation = 0
  /\ server_time = 0
  /\ \E devs \in ScanLists : scanned = devs /\ Built(repopulate(devs, 0))
  /\ carry = NoCarry
  /\ hierarchies = 0
  /\ rebuilds = 0
  /\ held = {}
  /\ returned = "none"
  /\ call = NoCall

NextScan ==
  \/ PumpBegin
  \/ \E devs \in ScanLists : Hierarchy(server_time, devs) /\ UNCHANGED held
  \/ \E deviceid \in SlaveIds, payload \in ScanPayloads :
       Motion(server_time, deviceid, payload)
  \/ \E polled \in PollEnds : PumpEnd(polled)

SpecScan == InitScan /\ [][NextScan]_vars

\* The raw ids the last request covers
Covered == {interest.val[k].deviceid : k \in DOMAIN interest.val}

\* The raw ids of the tools and pads the last pass classified
Classified ==
  {tools[k].internal_id.device_id : k \in DOMAIN tools}
    \cup {pads[k].internal_id.device_id : k \in DOMAIN pads}

\* C27: the last classification pass skipped the event-interest request
\* only if it classified no tool and no pad; when it classified at least
\* one tool or pad, pads only included, it sent the request, and the
\* request covers every classified tool and pad and the group of all
\* master devices.
C27_InterestCoversClassified ==
  /\ ~interest.some => Classified = {}
  /\ Classified # {} =>
       interest.some /\ Covered = Classified \cup {XI_ALL_MASTER_DEVICES}

----------------------------------------------------------------------------
(* Properties of the role table *)

\* The device passes the filters of the pass other than the type label:
\* it is listed and queried, attached as a slave pointer, and, as a pad,
\* has a button or a usable ring
PassesOtherFilters(d) ==
  /\ d.listed /\ d.queried
  /\ d.type_ = "SLAVE_POINTER"
  /\ d.device_type \in {"PAD", "TOUCHPAD"}
       => PadButtons(d.classes, 0) > 0 \/ PadRing(d.classes, None).some

\* The tool registry holds the device as a tool of kind ty
IsTool(id, ty) ==
  /\ id \in DOMAIN tool_infos
  /\ \E k \in DOMAIN tools : tools[k].internal_id = id /\ tools[k].tool_type = ty

\* C28: after a classification pass the role of a device is the image of
\* its type label under the fixed table: STYLUS is a pen tool and ERASER an
\* eraser tool, PAD and TOUCHPAD are pads, TABLET is a tablet record; so a
\* device labelled TOUCHPAD that passes the other filters is in the pad
\* registry.
C28_RoleOfLabel ==
  \A i \in DOMAIN scanned :
    LET d == scanned[i]
        id == MkID(device_generation, d.id)
    IN PassesOtherFilters(d) =>
         /\ d.device_type = "STYLUS" => IsTool(id, "Pen")
         /\ d.device_type = "ERASER" => IsTool(id, "Eraser")
         /\ d.device_type \in {"PAD", "TOUCHPAD"} =>
              id \in DOMAIN pad_infos /\ \E k \in DOMAIN pads : pads[k].internal_id = id
         /\ d.device_type = "TABLET" => \E k \in DOMAIN tablets : tablets[k].internal_id = id

\* The same table without the label TOUCHPAD
RoleOfLabelButTouchpad ==
  \A i \in DOMAIN scanned :
    LET d == scanned[i]
        id == MkID(device_generation, d.id)
    IN PassesOtherFilters(d) =>
         /\ d.device_type = "STYLUS" => IsTool(id, "Pen")
         /\ d.device_type = "ERASER" => IsTool(id, "Eraser")
         /\ d.device_type = "PAD" =>
              id \in DOMAIN pad_infos /\ \E k \in DOMAIN pads : pads[k].internal_id = id
         /\ d.device_type = "TABLET" => \E k \in DOMAIN tablets : tablets[k].internal_id = id

----------------------------------------------------------------------------
(* Properties of the degenerate ranges *)

\* The device reports the axis `label`, and every valuator it reports for
\* it has the degenerate range min = max
FlatAxis(d, label) ==
  LET reported == {k \in DOMAIN d.classes :
                     d.classes[k].class = "Valuator" /\ d.classes[k].label = label}
  IN /\ reported # {}
     /\ \A k \in reported : d.classes[k].min = d.classes[k].max

\* The events of this call come from the registries of the last pass: the
\* call is draining and has not rebuilt them
BatchOfLastPass == pc = "drain" /\ rebuilds = 0

\* The Pose events of the tool in the batch
PosesOf(id) ==
  {k \in DOMAIN events :
     events[k].dev = "Tool" /\ events[k].id = id /\ events[k].ev = "Pose"}

\* The axis table of a degenerate axis is empty: the tool has no pressure
\* (tilt) axis and the pad no ring, no Pose of the tool has a pressure
\* (tilt) field and no ring pose is emitted for the pad
DegenerateAxisIsAbsent ==
  \A i \in DOMAIN scanned :
    LET d == scanned[i]
        id == MkID(device_generation, d.id)
    IN /\ (id \in DOMAIN tool_infos /\ FlatAxis(d, "Abs Pressure")) =>
            /\ ~tool_infos[id].pressure.some
            /\ BatchOfLastPass => \A k \in PosesOf(id) : ~events[k].arg.pressure.some
       /\ (id \in DOMAIN tool_infos /\ FlatAxis(d, "Abs Tilt X")) =>
            /\ ~tool_infos[id].tilt[1].some
            /\ BatchOfLastPass =>
                 \A k \in PosesOf(id) :
                   events[k].arg.tilt.some => ~events[k].arg.tilt.val[1].some
       /\ (id \in DOMAIN tool_infos /\ FlatAxis(d, "Abs Tilt Y")) =>
            /\ ~tool_infos[id].tilt[2].some
            /\ BatchOfLastPass =>
                 \A k \in PosesOf(id) :
                   events[k].arg.tilt.some => ~events[k].arg.tilt.val[2].some
       /\ (id \in DOMAIN pad_infos /\ FlatAxis(d, "Abs Wheel")) =>
            /\ ~pad_infos[id].ring.some
            /\ \A k \in DOMAIN pads : pads[k].internal_id = id => ~pads[k].rings
            /\ BatchOfLastPass =>
                 \A k \in DOMAIN events :
                   ~(events[k].dev = "Pad" /\ events[k].id = id /\ events[k].ev = "RingPose")

\* The slots of the device's valuators with a degenerate range
FlatSlots(d) ==
  {d.classes[k].number :
     k \in {j \in DOMAIN d.classes :
              d.classes[j].class = "Valuator" /\ d.classes[j].min = d.classes[j].max}}

\* The samples the axis fields of a Pose are computed from
PoseSamples(e) ==
  {x.val.raw : x \in {y \in {e.arg.pressure} \cup
                              (IF e.arg.tilt.some
                               THEN {e.arg.tilt.val[1], e.arg.tilt.val[2]} ELSE {}) :
                       y.some}}

\* No Pose of a tool is computed from the sample an event reports for the
\* slot of one of its degenerate valuators
NoSampleOfFlatSlot ==
  BatchOfLastPass =>
    \A i \in DOMAIN scanned :
      \A k \in PosesOf(MkID(device_generation, scanned[i].id)) :
        \A slot \in FlatSlots(scanned[i]) : SlotValue(slot) \notin PoseSamples(events[k])

\* C29: an axis whose reported range is degenerate (min = max) is absent
\* after classification: no pressure or tilt transform is recorded for the
\* tool and no ring for the pad from such a valuator, and no pose event
\* carries a value derived from it.
C29_DegenerateAxisFeedsNoPose ==
  DegenerateAxisIsAbsent /\ NoSampleOfFlatSlot

----------------------------------------------------------------------------
(* Properties of the tick-end cleanup *)

\* The Frame events a step appended to the batch for one tool
FramesFor(id) == SelectSeq(AppendedFor(id), LAMBDA e : e.ev = "Frame")

\* C30: when pump returns no tool has a pending frame timestamp, and every
\* pending timestamp still set when the drain ended has been appended by
\* the cleanup as exactly one Frame event, carrying it; a tool with none
\* pending gets no Frame.
C30_PendingFramesFlushed ==
  [][\A polled \in PollEnds :
       PumpEnd(polled) =>
         /\ \A id \in DOMAIN tool_infos' : tool_infos'[id].frame_pending = NoTime
         /\ \A id \in DOMAIN tool_infos :
              FramesFor(id) =
                IF tool_infos[id].frame_pending = NoTime THEN <<>>
                ELSE Stamp(<<ToolEvent(id, "Frame", [time |-> tool_infos[id].frame_pending])>>,
                           NoTime)]_vars

\* pump has returned and the batch ends with frames the cleanup appended
\* for a tool
C30_Witness ==
  /\ pc = "idle"
  /\ returned = "Ok"
  /\ \E k \in DOMAIN events :
       /\ events[k].dev = "Tool" /\ events[k].ev = "Frame" /\ events[k].at = NoTime
       /\ tool_infos[events[k].id].frame_pending = NoTime

----------------------------------------------------------------------------
(* Properties of the ring events *)

\* The positions of the batch a step appended
NewPositions ==
  IF Len(events') >= Len(events) /\ SubSeq(events', 1, Len(events)) = events
  THEN (Len(events) + 1)..Len(events')
  ELSE {}

\* C31: every ring Pose appended to the batch is immediately followed by a
\* ring Frame for the same ring carrying the server time of the motion
\* event that produced the pose, and a ring Up appended while that motion
\* event is handled precedes the Pose.
C31_RingPoseThenFrame ==
  [][\A k \in NewPositions :
       (events'[k].dev = "Pad" /\ events'[k].ev = "RingPose") =>
         /\ k + 1 \in NewPositions
         /\ events'[k + 1].dev = "Pad" /\ events'[k + 1].ev = "RingFrame"
         /\ events'[k + 1].id = events'[k].id
         /\ events'[k + 1].arg.time = server_time'
         /\ events'[k].at = server_time'
         /\ \A j \in NewPositions :
              (events'[j].dev = "Pad" /\ events'[j].ev = "RingUp"
                 /\ events'[j].id = events'[k].id) => j < k]_vars

\* A motion event found the ring timed out and carried a sample: Up, Pose,
\* Frame, all stamped with the event
C31_Witness ==
  \E k \in DOMAIN events :
    /\ k + 2 \in DOMAIN events
    /\ events[k].ev = "RingUp" /\ events[k].at # NoTime
    /\ events[k + 1].ev = "RingPose" /\ events[k + 1].at = events[k].at
    /\ events[k + 2].ev = "RingFrame" /\ events[k + 2].arg.time = events[k].at

----------------------------------------------------------------------------
(* Properties of the pad registry *)

\* The device has the pad role and neither a button nor a usable ring
EmptyPad(d) ==
  /\ d.listed /\ d.queried
  /\ d.device_type = "PAD"
  /\ PadButtons(d.classes, 0) = 0
  /\ ~PadRing(d.classes, None).some

\* C32: after a classification pass every pad of the pad registry has a
\* button or a ring; a pad-role device with no button and no ring is not in
\* the public pad list, not in the internal pad state and not in the
\* interest request.
C32_EmptyPadDiscarded ==
  /\ \A k \in DOMAIN pads :
       /\ pads[k].total_buttons > 0 \/ pads[k].rings
       /\ pads[k].internal_id \in DOMAIN pad_infos
  /\ \A id \in DOMAIN pad_infos : \E k \in DOMAIN pads : pads[k].internal_id = id
  /\ \A i \in DOMAIN scanned :
       EmptyPad(scanned[i]) =>
         /\ \A k \in DOMAIN pads : pads[k].internal_id.device_id # scanned[i].id
         /\ \A id \in DOMAIN pad_infos : id.device_id # scanned[i].id
         /\ interest.some => scanned[i].id \notin Covered

\* The last pass found a pad-role device with nothing to offer next to a
\* tool, and sent its interest request
C32_Witness ==
  /\ interest.some
  /\ \E i \in DOMAIN scanned : EmptyPad(scanned[i])

----------------------------------------------------------------------------
(* Properties of the stream across rebuilds *)

\* Walking a batch for one tool, starting inside or outside its proximity
\* span: In only outside, Out only inside and with the tip up, Down only
\* inside with the tip up, Up only with the tip down.  tip is "down", "up",
\* or "any" for a span begun in an earlier tick, whose Down and Up the
\* summary does not keep
RECURSIVE Alternating(_, _, _, _)
Alternating(in, tip, id, evs) ==
  IF evs = <<>> THEN TRUE
  ELSE LET e == Head(evs)
           mine == e.dev = "Tool" /\ e.id = id
       IN IF ~mine THEN Alternating(in, tip, id, Tail(evs))
          ELSE CASE e.ev = "In" -> ~in /\ Alternating(TRUE, "up", id, Tail(evs))
                 [] e.ev = "Out" ->
                      in /\ tip # "down" /\ Alternating(FALSE, "up", id, Tail(evs))
                 [] e.ev = "Down" ->
                      in /\ tip # "down" /\ Alternating(in, "down", id, Tail(evs))
                 [] e.ev = "Up" -> tip # "up" /\ Alternating(in, "up", id, Tail(evs))
                 [] OTHER -> Alternating(in, tip, id, Tail(evs))

\* C33: in the stream of each tool id, over all ticks and across the
\* rebuilds of the registries, In and Out strictly alternate starting with
\* In, and Down and Up strictly alternate inside an In..Out span.
C33_PhasesAlternateAcrossRebuilds ==
  \A id \in AllIds :
    Alternating(carry[id].in, IF carry[id].in THEN "any" ELSE "up", id, events)

----------------------------------------------------------------------------
(* Properties of the grab flags across rebuilds *)

\* The server's side of a hierarchy change that leaves the device list devs
DevicesChanged(devs) == held' = still_held(held, devs)

\* The server's side of parent_entered: it holds the grabs it granted
GrabsServed(master, ok) ==
  held' = held \cup (requested(tool_infos, pad_infos, master, FALSE) \cap ok)

\* The server's side of parent_left: it drops the grabs it was asked to drop
\* where the request went through
UngrabsServed(master, ok) ==
  held' = held \ (requested(tool_infos, pad_infos, master, TRUE) \cap ok)

\* The pump calls that drain entered and left notifications and hierarchy
\* events, with the server's side of each
NextServer ==
  \/ PumpBegin
  \/ \E t \in Times, c \in DOMAIN Configs :
       Hierarchy(t, Configs[c]) /\ DevicesChanged(Configs[c])
  \/ \E t \in Times, master \in Masters, ok \in SUBSET Grabbable(tool_infos, pad_infos) :
       Enter(t, master, ok) /\ GrabsServed(master, ok)
  \/ \E t \in Times, master \in Masters, ok \in SUBSET Grabbable(tool_infos, pad_infos) :
       Leave(t, master, ok) /\ UngrabsServed(master, ok)
  \/ \E polled \in PollEnds : PumpEnd(polled)

SpecServer == Init /\ [][NextServer]_vars

\* The flag of every registered tool and pad says whether the server holds
\* the grab on its device
FlagsMatchServer(tis, pis, grabs) ==
  /\ \A id \in DOMAIN tis : tis[id].grabbed = (id.device_id \in grabs)
  /\ \A id \in DOMAIN pis : pis[id].grabbed = (id.device_id \in grabs)

\* C34: after any sequence of entered and left notifications and of
\* rebuilds of the registries, a device's grabbed flag is true exactly when
\* the server holds this client's grab on that device.
C34_GrabbedFlagMatchesServer == FlagsMatchServer(tool_infos, pad_infos, held)

----------------------------------------------------------------------------
(* Properties of the ids of the exposed batch *)

\* A pump call has returned: raw_events, tools, pads and tablets expose the
\* batch and the registries it left
Exposed == pc = "idle" /\ returned # "none"

ToolIds == {tools[i].internal_id : i \in DOMAIN tools}
PadIds == {pads[i].internal_id : i \in DOMAIN pads}

\* The tool, pad and tablet ids an event carries are ids of the public lists
IdsRegistered(e) ==
  /\ e.dev = "Tool" => e.id \in ToolIds
  /\ e.dev = "Pad" => e.id \in PadIds
  /\ (e.dev = "Tool" /\ e.ev = "In") \/ (e.dev = "Pad" /\ e.ev = "Enter")
       => e.arg.tablet \in TabletIds

\* C35: every tool, pad or tablet id carried by an event of the batch
\* exposed after a pump call belongs to a record of the tool, pad or tablet
\* list exposed after that same call, also when a hierarchy change was
\* processed in the middle of the call.
C35_BatchIdsRegistered ==
  Exposed => \A k \in DOMAIN events : IdsRegistered(events[k])

----------------------------------------------------------------------------
(* Properties of the release of tools whose grab was not granted *)

\* The tools attached to `master`, grabbed or not
AttachedTools(master) == {id \in DOMAIN tool_infos : is_child(tool_infos[id], master)}

\* C36: a left notification for a master leaves every tool attached to it
\* that was In or Down in phase Out, with its Up and Out appended to the
\* batch, whether or not an earlier grab request for the tool succeeded.
C36_LeaveReleasesEveryTool ==
  [][\A master \in Masters :
       \A ok \in SUBSET RawIds(UngrabCandidates(tool_infos, master)
                               \cup UngrabCandidates(pad_infos, master)) :
       Leave(server_time', master, ok)
         => \A id \in AttachedTools(master) :
              tool_infos[id].phase \in {"In", "Down"}
                => /\ tool_infos'[id].phase = "Out"
                   /\ Len(events') >= Len(events)
                   /\ \E k \in DOMAIN AppendedFor(id) : AppendedFor(id)[k].ev = "Out"]_vars

----------------------------------------------------------------------------
(* Properties of the pad announcements *)

\* No pump call has been made since construction
BeforeFirstPump == pc = "idle" /\ returned = "none"

\* C37: every pad the classification pass of construction placed in the
\* registry is announced to the caller: the Pad Enter pushed for it, with
\* the pad's tablet id, is in the batch the first pump call builds and
\* exposes, once.
C37_InitialPadsAnnounced ==
  [][BeforeFirstPump
       => \A id \in DOMAIN pad_infos :
            Cardinality({k \in DOMAIN events' :
                           events'[k] = [PadEvent(id, "Enter", [tablet |-> pad_infos[id].tablet])
                                           EXCEPT !.at = events'[k].at]}) = 1]_vars

----------------------------------------------------------------------------
(* Properties of the sign and order of converted samples *)

\* The number of bits of a magnitude
RECURSIVE BitLen(_)
BitLen(a) == IF a = 0 THEN 0 ELSE 1 + BitLen(a \div 2)

\* |x| <= |y| for two non-zero floats: by the position of the leading bit,
\* then by the significands brought to one exponent
MagnitudeLe(x, y) ==
  IF BitLen(Abs(x.m)) + x.e # BitLen(Abs(y.m)) + y.e
  THEN BitLen(Abs(x.m)) + x.e < BitLen(Abs(y.m)) + y.e
  ELSE Abs(x.m) * Pow2(x.e - Min(x.e, y.e)) <= Abs(y.m) * Pow2(y.e - Min(x.e, y.e))

\* x <= y
F32Le(x, y) ==
  IF x.m = 0 THEN y.m >= 0
  ELSE IF y.m = 0 THEN x.m < 0
  ELSE IF x.m < 0 /\ y.m > 0 THEN TRUE
  ELSE IF x.m > 0 /\ y.m < 0 THEN FALSE
  ELSE IF x.m > 0 THEN MagnitudeLe(x, y) ELSE MagnitudeLe(y, x)

\* 0 < x < 1
InsideUnit(x) == x.m > 0 /\ BitLen(x.m) + x.e <= 0

\* a <= b in represented value: the value of a sample is its integral part
\* plus its fractional part, an unsigned count of 2^-32
FixedLe(a, b) == a.integral < b.integral \/ (a.integral = b.integral /\ a.frac <= b.frac)

\* C38: fixed32_to_f32 preserves sign and order: a sample with integral
\* part 0 and a non-zero fraction converts to a value strictly between 0
\* and 1, and a sample below another in represented value does not convert
\* to a greater float.
C38_SignAndOrderPreserved ==
  call.fn = "fixed32_to_f32"
    => /\ call.fixed.integral = 0 /\ call.fixed.frac # 0 => InsideUnit(call.result)
       /\ \A b \in Samples :
            FixedLe(call.fixed, b) => F32Le(call.result, fixed32_to_f32(b))

====
